---- MODULE Spec2Model ----
(***************************************************************************)
(* A model of the N-body engine of astro-engine (src/src/main.ts): the     *)
(* vector classes, the gravitational force functions, the Euler            *)
(* integrator, the PhysicsSimulation / PhysicsSimulation3D drivers and the *)
(* SimulationRunner.                                                       *)
(*                                                                         *)
(* Numbers.  A JavaScript number is a rational <<n, d>> in lowest terms    *)
(* with d > 0.  The operators +, -, *, / and Math.sqrt of the code are     *)
(* Plus, Minus, Times, Divide and MathSqrt: each returns the exact result  *)
(* rounded to the number format of the behaviour, which the variable       *)
(* precision gives.  precision = p > 0 is binary floating point with a     *)
(* significand of p bits, rounding to nearest, ties to even, as IEEE 754   *)
(* binary64 does with p = 53; results below the smallest normal number     *)
(* 2^-MinExponent underflow gradually, to zero at the end, as binary64     *)
(* does below 2^-1022, and results that round to 2^MaxExponent or more     *)
(* overflow to Infinity, as binary64 does at 2^1024.  Infinity, -Infinity  *)
(* and NaN are written with the denominator 0; the format has one zero     *)
(* (the code divides by no negative zero).                                 *)
(* precision = 0 is exact arithmetic, in which nothing is                  *)
(* rounded; there MathSqrt is exact on squares of rationals only, and the  *)
(* model takes square roots of such numbers only (Steppable, Rational).    *)
(*                                                                         *)
(* Objects.  Vector2D/Vector3D instances, body records and arrays are      *)
(* heap objects with an identity: vecs, objs and arrs map addresses to     *)
(* contents, and fields hold addresses.  Cells no root reaches are         *)
(* dropped after every operation (garbage collection).                     *)
(***************************************************************************)
EXTENDS Integers, Sequences, FiniteSets, TLC

VARIABLES
  precision,  \* the number format: 0 exact, p > 0 floating point of p bits
  heap,       \* the objects: [vecs, objs, arrs]
  sim,        \* the driver object
  runner,     \* the SimulationRunner on the driver
  snap,       \* the last object getState() returned, held by the caller,
              \* and whether the caller has written into it
  spare,      \* the templates of the bodies the caller has still to create
  stepsLeft,  \* number of step() calls the caller still makes
  completed,  \* number of step() calls that returned, since construction
              \* or reset()
  last,       \* the last operation: its name, arguments, result
  passed,     \* the arrays the caller passed to the driver's constructor and
              \* still holds (addresses): none or one
  others      \* the other drivers the caller has constructed

vars == <<precision, heap, sim, runner, snap, spare, stepsLeft, completed, last,
          passed, others>>

----------------------------------------------------------------------------
(* Numbers *)

\* F applied to the value of e: e is evaluated once and bound to F's parameter
Let(e, F(_)) == CHOOSE r \in {F(x) : x \in {e}} : TRUE

Abs(n) == IF n < 0 THEN -n ELSE n

RECURSIVE GCD(_, _)
GCD(a, b) == IF b = 0 THEN a ELSE GCD(b, a % b)

\* the number n/d, d # 0, in lowest terms with a positive denominator
Q(n, d) ==
  Let(GCD(Abs(n), Abs(d)), LAMBDA g :
    IF d < 0 THEN <<(-n) \div g, (-d) \div g>> ELSE <<n \div g, d \div g>>)

Num(n) == <<n, 1>>
Zero == Num(0)

\* a + b, a - b, a * b, a / b: the exact value, computed over the least
\* common denominator and with common factors cancelled before multiplying
QAdd(a, b) ==
  Let(GCD(a[2], b[2]), LAMBDA g :
    Q(a[1] * (b[2] \div g) + b[1] * (a[2] \div g), (a[2] \div g) * b[2]))
QNeg(a) == <<-a[1], a[2]>>
QSub(a, b) == QAdd(a, QNeg(b))
QMul(a, b) ==
  Let(GCD(Abs(a[1]), b[2]), LAMBDA g1 :
  Let(GCD(Abs(b[1]), a[2]), LAMBDA g2 :
    Q((a[1] \div g1) * (b[1] \div g2), (a[2] \div g2) * (b[2] \div g1))))
\* b # 0
QDiv(a, b) == QMul(a, IF b[1] < 0 THEN <<-b[2], -b[1]>> ELSE <<b[2], b[1]>>)

\* the values that are not finite
Infinity == <<1, 0>>
NegInfinity == <<-1, 0>>
NaN == <<0, 0>>
IsFinite(x) == x[2] # 0

\* a <= b: false when either is NaN
QLeq(a, b) ==
  IF IsFinite(a) /\ IsFinite(b) THEN a[1] * b[2] <= b[1] * a[2]
  ELSE a # NaN /\ b # NaN /\ (a = NegInfinity \/ b = Infinity)

\* a === 0
QIsZero(a) == a[1] = 0 /\ a[2] # 0

\* the smallest normal number of the floating-point formats is 2^-MinExponent
MinExponent == 4

\* the numbers of the floating-point formats are smaller than 2^MaxExponent
MaxExponent == 12

\* the integer nearest to n/d (n >= 0, d > 0), the even one of two
NearestEven(n, d) ==
  Let(n \div d, LAMBDA f :
    IF 2 * (n - f * d) > d \/ (2 * (n - f * d) = d /\ f % 2 = 1)
    THEN f + 1 ELSE f)

\* n/d > 0 rounded to a significand of p bits
RECURSIVE RoundPos(_, _, _)
RoundPos(n, d, p) ==
  IF n >= d * 2^p THEN Let(RoundPos(n, 2 * d, p), LAMBDA r : Q(2 * r[1], r[2]))
  ELSE IF n < d * 2^(p - 1)
  THEN Let(RoundPos(2 * n, d, p), LAMBDA r : Q(r[1], 2 * r[2]))
  ELSE Num(NearestEven(n, d))

\* n/d > 0 in the number format of p bits: below the smallest normal number
\* 2^-MinExponent the numbers of the format are the multiples of
\* 2^-(MinExponent + p - 1) (gradual underflow, to zero at the end)
RoundAbs(n, d, p) ==
  IF n * 2^MinExponent < d
  THEN Q(NearestEven(n * 2^(MinExponent + p - 1), d), 2^(MinExponent + p - 1))
  ELSE RoundPos(n, d, p)

Round(q, p) ==
  IF q[1] = 0 THEN q
  ELSE IF q[1] < 0 THEN QNeg(RoundAbs(-q[1], q[2], p))
  ELSE RoundAbs(q[1], q[2], p)

\* the rounded result r in a format whose exponent is bounded
Overflow(r) ==
  IF r[1] >= 2^MaxExponent * r[2] THEN Infinity
  ELSE IF -r[1] >= 2^MaxExponent * r[2] THEN NegInfinity
  ELSE r

\* the exact result q in the number format
Rnd(q) == IF precision = 0 THEN q ELSE Overflow(Round(q, precision))

\* a + b where a or b is not finite
PlusInf(a, b) ==
  IF a = NaN \/ b = NaN THEN NaN
  ELSE IF IsFinite(a) THEN b
  ELSE IF IsFinite(b) \/ a = b THEN a
  ELSE NaN

\* a * b where a or b is not finite
TimesInf(a, b) ==
  IF a[1] = 0 \/ b[1] = 0 THEN NaN
  ELSE IF (a[1] > 0) = (b[1] > 0) THEN Infinity ELSE NegInfinity

\* a / b where a or b is not finite, or b is zero
DivideInf(a, b) ==
  IF a = NaN \/ b = NaN \/ (a[1] = 0 /\ b[1] = 0) \/ (a[2] = 0 /\ b[2] = 0) THEN NaN
  ELSE IF b[2] = 0 THEN Zero
  ELSE IF (a[1] > 0) = (b[1] >= 0) THEN Infinity ELSE NegInfinity

\* the operators +, -, *, / of the code
Plus(a, b) == IF a[2] # 0 /\ b[2] # 0 THEN Rnd(QAdd(a, b)) ELSE PlusInf(a, b)
Minus(a, b) == IF a[2] # 0 /\ b[2] # 0 THEN Rnd(QSub(a, b)) ELSE PlusInf(a, QNeg(b))
Times(a, b) == IF a[2] # 0 /\ b[2] # 0 THEN Rnd(QMul(a, b)) ELSE TimesInf(a, b)
Divide(a, b) ==
  IF a[2] # 0 /\ b[2] # 0 /\ b[1] # 0 THEN Rnd(QDiv(a, b)) ELSE DivideInf(a, b)

\* floor of the square root of a natural number, by bisection
RECURSIVE ISqrtIn(_, _, _)
ISqrtIn(n, lo, hi) ==
  IF lo >= hi THEN lo
  ELSE LET mid == (lo + hi + 1) \div 2
       IN  IF mid * mid <= n THEN ISqrtIn(n, mid, hi) ELSE ISqrtIn(n, lo, mid - 1)

ISqrt(n) == ISqrtIn(n, 0, IF n < 46340 THEN n ELSE 46340)

\* q is the square of a rational: Math.sqrt(q) is exact
IsSquare(n) == n >= 0 /\ Let(ISqrt(n), LAMBDA r : r * r = n)
HasSqrt(q) == IsSquare(q[1]) /\ IsSquare(q[2])

\* the square root of the square of a rational
Sqrt(q) == <<ISqrt(q[1]), ISqrt(q[2])>>

\* the integer nearest to the square root of n/d, the even one of two
NearestEvenSqrt(n, d) ==
  Let(ISqrt(n \div d), LAMBDA r :
    IF 4 * n > (2 * r + 1) * (2 * r + 1) * d
       \/ (4 * n = (2 * r + 1) * (2 * r + 1) * d /\ r % 2 = 1)
    THEN r + 1 ELSE r)

\* the square root of n/d > 0 rounded to a significand of p bits
RECURSIVE SqrtPos(_, _, _)
SqrtPos(n, d, p) ==
  IF n >= d * 4^p THEN Let(SqrtPos(n, 4 * d, p), LAMBDA r : Q(2 * r[1], r[2]))
  ELSE IF n < d * 4^(p - 1)
  THEN Let(SqrtPos(4 * n, d, p), LAMBDA r : Q(r[1], 2 * r[2]))
  ELSE Num(NearestEvenSqrt(n, d))

\* Math.sqrt(q), q >= 0 or NaN: the root of the smallest number of the
\* format is a normal number, no root underflows
MathSqrt(q) ==
  IF q[2] = 0 THEN (IF q = NegInfinity THEN NaN ELSE q)
  ELSE IF precision = 0 THEN Sqrt(q)
  ELSE IF q[1] = 0 THEN Zero
  ELSE Let(GCD(q[1], q[2]), LAMBDA g : SqrtPos(q[1] \div g, q[2] \div g, precision))

----------------------------------------------------------------------------
(* Results of calls that may throw *)

NoValue == <<>>
Ret(v) == [thrown |-> FALSE, value |-> v, error |-> ""]
Throw(msg) == [thrown |-> TRUE, value |-> NoValue, error |-> msg]

----------------------------------------------------------------------------
(* Vector2D and Vector3D values: tuples of 2 or 3 numbers *)

VZero(n) == [i \in 1..n |-> Zero]

VAdd(a, b) == [i \in DOMAIN a |-> Plus(a[i], b[i])]

VSub(a, b) == [i \in DOMAIN a |-> Minus(a[i], b[i])]

VMul(v, scalar) == [i \in DOMAIN v |-> Times(v[i], scalar)]

VDiv(v, scalar) ==
  IF QIsZero(scalar) THEN Throw("Division by zero")
  ELSE Ret([i \in DOMAIN v |-> Divide(v[i], scalar)])

\* x*x + y*y (+ z*z), the argument of Math.sqrt in magnitude()
SumSq(v) ==
  Let(Plus(Times(v[1], v[1]), Times(v[2], v[2])), LAMBDA xy :
    IF Len(v) = 2 THEN xy ELSE Plus(xy, Times(v[3], v[3])))

VMagnitude(v) == MathSqrt(SumSq(v))

VNormalize(v) ==
  Let(VMagnitude(v), LAMBDA mag :
    IF QIsZero(mag) THEN Ret(VZero(Len(v))) ELSE VDiv(v, mag))

VDistanceTo(a, b) == VMagnitude(VSub(a, b))

VCross(a, b) ==
  <<Minus(Times(a[2], b[3]), Times(a[3], b[2])),
    Minus(Times(a[3], b[1]), Times(a[1], b[3])),
    Minus(Times(a[1], b[2]), Times(a[2], b[1]))>>

----------------------------------------------------------------------------
(* Force model *)

calculateGravitationalForce(m1, m2, distance, G) ==
  IF QIsZero(distance) THEN Throw("Distance cannot be zero")
  ELSE Ret(Divide(Times(Times(G, m1), m2), Times(distance, distance)))

\* the function without its own test of the distance
calculateGravitationalForceVectorUnguarded(m1, pos1, m2, pos2, G) ==
  Let(VSub(pos2, pos1), LAMBDA displacement :
  Let(VMagnitude(displacement), LAMBDA distance :
  Let(calculateGravitationalForce(m1, m2, distance, G), LAMBDA forceMagnitude :
    IF forceMagnitude.thrown THEN forceMagnitude
    ELSE Let(VNormalize(displacement), LAMBDA forceDirection :
           IF forceDirection.thrown THEN forceDirection
           ELSE Ret(VMul(forceDirection.value, forceMagnitude.value))))))

\* 2D and 3D: the two functions differ in the vector class only
calculateGravitationalForceVector(m1, pos1, m2, pos2, G) ==
  Let(VSub(pos2, pos1), LAMBDA displacement :
  Let(VMagnitude(displacement), LAMBDA distance :
    IF QIsZero(distance) THEN Ret(VZero(Len(pos1)))
    ELSE Let(calculateGravitationalForce(m1, m2, distance, G), LAMBDA forceMagnitude :
           IF forceMagnitude.thrown THEN forceMagnitude
           ELSE Let(VNormalize(displacement), LAMBDA forceDirection :
                  IF forceDirection.thrown THEN forceDirection
                  ELSE Ret(VMul(forceDirection.value, forceMagnitude.value))))))

\* body1, body2: body records whose position is read as a vector value
calculateGravitationalForceBetweenBodies(body1, body2, G) ==
  calculateGravitationalForceVector(body1.mass, body1.position,
                                    body2.mass, body2.position, G)

\* the loop with `if (body === targetBody) continue`: only the target object
\* itself is skipped
RECURSIVE TotalForceLoopSkipSame(_, _, _, _, _)
TotalForceLoopSkipSame(targetBody, otherBodies, G, k, totalForce) ==
  IF k > Len(otherBodies) THEN Ret(totalForce)
  ELSE IF otherBodies[k] = targetBody
       THEN TotalForceLoopSkipSame(targetBody, otherBodies, G, k + 1, totalForce)
       ELSE Let(calculateGravitationalForceBetweenBodies(
                  targetBody, otherBodies[k], G), LAMBDA force :
              IF force.thrown THEN force
              ELSE TotalForceLoopSkipSame(targetBody, otherBodies, G, k + 1,
                                          VAdd(totalForce, force.value)))

\* the for-of loop of calculateTotalGravitationalForce from index k on, with
\* totalForce the running sum; a throw of the pairwise force ends the loop
RECURSIVE TotalForceLoop(_, _, _, _, _)
TotalForceLoop(targetBody, otherBodies, G, k, totalForce) ==
  IF k > Len(otherBodies) THEN Ret(totalForce)
  ELSE IF otherBodies[k].id = targetBody.id
       THEN TotalForceLoop(targetBody, otherBodies, G, k + 1, totalForce)
       ELSE Let(calculateGravitationalForceBetweenBodies(
                  targetBody, otherBodies[k], G), LAMBDA force :
              IF force.thrown THEN force
              ELSE TotalForceLoop(targetBody, otherBodies, G, k + 1,
                                  VAdd(totalForce, force.value)))

calculateTotalGravitationalForce(targetBody, otherBodies, G) ==
  TotalForceLoop(targetBody, otherBodies, G, 1, VZero(Len(targetBody.position)))

\* a test that takes touching bodies as apart
areCollidingStrict(body1, body2) ==
  Let(VDistanceTo(body1.position, body2.position), LAMBDA distance :
    ~QLeq(Plus(body1.radius, body2.radius), distance))

areColliding(body1, body2) ==
  Let(VDistanceTo(body1.position, body2.position), LAMBDA distance :
    QLeq(distance, Plus(body1.radius, body2.radius)))

areColliding3D(body1, body2) ==
  Let(VDistanceTo(body1.position, body2.position), LAMBDA distance :
    QLeq(distance, Plus(body1.radius, body2.radius)))

----------------------------------------------------------------------------
(* The object heap *)

Range(f) == {f[x] : x \in DOMAIN f}

\* the smallest address not in use
Fresh(used) ==
  CHOOSE a \in 1..(Cardinality(used) + 1) :
    a \notin used /\ \A b \in 1..(a - 1) : b \in used

Put(f, a, v) == [x \in DOMAIN f \cup {a} |-> IF x = a THEN v ELSE f[x]]

EmptyHeap == [vecs |-> <<>>, objs |-> <<>>, arrs |-> <<>>]

\* the fields of a body record that hold a vector object; an optional field
\* that is undefined (angularMomentum) is a field the record does not have
VecFields(body) == {"position", "velocity", "angularMomentum"} \cap DOMAIN body

\* new Vector2D(x, y) / new Vector3D(x, y, z)
NewVector(h, v) ==
  Let(Fresh(DOMAIN h.vecs), LAMBDA a :
    [heap |-> [h EXCEPT !.vecs = Put(@, a, v)], addr |-> a])

\* v.clone()
Clone(h, a) == NewVector(h, h.vecs[a])

\* what a vector method returns: when the computation r has not thrown, the
\* new vector object with r's value
Returns(h, r) ==
  IF r.thrown
  THEN [heap |-> h, thrown |-> TRUE, error |-> r.error, addr |-> NoValue]
  ELSE Let(NewVector(h, r.value), LAMBDA n :
         [heap |-> n.heap, thrown |-> FALSE, error |-> "", addr |-> n.addr])

\* the methods of the vector object at address this
add(h, this, v) == Returns(h, Ret(VAdd(h.vecs[this], h.vecs[v])))

sub(h, this, v) == Returns(h, Ret(VSub(h.vecs[this], h.vecs[v])))

\* a mul that scales the receiver and returns it
mulInPlace(h, this, scalar) ==
  [heap |-> [h EXCEPT !.vecs[this] = VMul(@, scalar)], thrown |-> FALSE,
   error |-> "", addr |-> this]

mul(h, this, scalar) == Returns(h, Ret(VMul(h.vecs[this], scalar)))

div(h, this, scalar) == Returns(h, VDiv(h.vecs[this], scalar))

normalize(h, this) == Returns(h, VNormalize(h.vecs[this]))

cross(h, this, v) == Returns(h, Ret(VCross(h.vecs[this], h.vecs[v])))

clone(h, this) == Returns(h, Ret(h.vecs[this]))

\* a projection that drops x instead of z
toVector2DOfYZ(h, this) == Returns(h, Ret(<<h.vecs[this][2], h.vecs[this][3]>>))

toVector2D(h, this) == Returns(h, Ret(<<h.vecs[this][1], h.vecs[this][2]>>))

fromVector2D(h, v2d, z) == Returns(h, Ret(<<h.vecs[v2d][1], h.vecs[v2d][2], z>>))

\* the body record at address o with its vector fields read as values
BodyVal(h, o) ==
  [f \in DOMAIN h.objs[o] |->
     IF f \in VecFields(h.objs[o]) THEN h.vecs[h.objs[o][f]] ELSE h.objs[o][f]]

\* the array at address a as a sequence of body values
BodiesVal(h, a) == [i \in 1..Len(h.arrs[a]) |-> BodyVal(h, h.arrs[a][i])]

\* seq without the later occurrences of its elements
RECURSIVE Dedup(_, _)
Dedup(seq, acc) ==
  IF seq = <<>> THEN acc
  ELSE Dedup(Tail(seq), IF Head(seq) \in Range(acc) THEN acc
                        ELSE Append(acc, Head(seq)))

IndexOf(seq, x) == CHOOSE i \in 1..Len(seq) : seq[i] = x

RECURSIVE Flatten(_)
Flatten(seqs) == IF seqs = <<>> THEN <<>> ELSE Head(seqs) \o Flatten(Tail(seqs))

\* the vector fields of a body record, in a fixed order
VecFieldsSeq(body) ==
  IF "angularMomentum" \in DOMAIN body
  THEN <<"position", "velocity", "angularMomentum">>
  ELSE <<"position", "velocity">>

\* garbage collection: keeps the objects the arrays in roots (a sequence of
\* array addresses) reach and moves them to the addresses 1, 2, ... in the
\* order in which the roots reach them; the i-th root becomes array i
Collect(h, roots) ==
  Let(Dedup(Flatten([i \in 1..Len(roots) |-> h.arrs[roots[i]]]), <<>>), LAMBDA O :
  Let(Dedup(Flatten([i \in 1..Len(O) |->
              [k \in 1..Len(VecFieldsSeq(h.objs[O[i]])) |->
                 h.objs[O[i]][VecFieldsSeq(h.objs[O[i]])[k]]]]), <<>>), LAMBDA V :
    [vecs |-> [i \in 1..Len(V) |-> h.vecs[V[i]]],
     objs |-> [i \in 1..Len(O) |->
                 [f \in DOMAIN h.objs[O[i]] |->
                    IF f \in VecFields(h.objs[O[i]])
                    THEN IndexOf(V, h.objs[O[i]][f]) ELSE h.objs[O[i]][f]]],
     arrs |-> [i \in 1..Len(roots) |->
                 [k \in 1..Len(h.arrs[roots[i]]) |->
                    IndexOf(O, h.arrs[roots[i]][k])]]]))

----------------------------------------------------------------------------
(* Body factory *)

Merge(defaults, params) ==
  [f \in DOMAIN defaults \cup DOMAIN params |->
     IF f \in DOMAIN params THEN params[f] ELSE defaults[f]]

DefaultRadius == 1000

\* params and result hold vector values: the vector objects are created when
\* the body is stored in the heap (StoreBody)
createCelestialBody(params) ==
  Merge([position |-> VZero(2), velocity |-> VZero(2),
         radius |-> Num(DefaultRadius), color |-> "#ffffff"], params)

createCelestialBody3D(params) ==
  Merge([position |-> VZero(3), velocity |-> VZero(3),
         radius |-> Num(DefaultRadius), color |-> "#ffffff",
         inclination |-> Zero], params)

\* the vector objects and the record of a body value b, as new heap objects
RECURSIVE StoreFields(_, _, _)
StoreFields(h, b, fs) ==
  IF fs = {} THEN [heap |-> h, body |-> b]
  ELSE Let(CHOOSE g \in fs : TRUE, LAMBDA f :
       Let(NewVector(h, b[f]), LAMBDA n :
         StoreFields(n.heap, [b EXCEPT ![f] = n.addr], fs \ {f})))

StoreBody(h, b) ==
  Let(StoreFields(h, b, VecFields(b)), LAMBDA s :
  Let(Fresh(DOMAIN s.heap.objs), LAMBDA o :
    [heap |-> [s.heap EXCEPT !.objs = Put(@, o, s.body)], addr |-> o]))

\* an array literal [b1, ..., bn] of newly created bodies
RECURSIVE StoreBodies(_, _, _)
StoreBodies(h, bs, acc) ==
  IF bs = <<>> THEN [heap |-> h, elems |-> acc]
  ELSE Let(StoreBody(h, Head(bs)), LAMBDA n :
         StoreBodies(n.heap, Tail(bs), Append(acc, n.addr)))

NewArray(h, elems) ==
  Let(Fresh(DOMAIN h.arrs), LAMBDA a :
    [heap |-> [h EXCEPT !.arrs = Put(@, a, elems)], addr |-> a])

----------------------------------------------------------------------------
(* Integrator; the 2D and 3D functions differ in the vector class only *)

\* explicit Euler: the position advances with the velocity the body had
\* before the call
updateBodyEulerExplicit(h, o, force, dt) ==
  Let(VDiv(force, h.objs[o].mass), LAMBDA acceleration :
    IF acceleration.thrown
    THEN [heap |-> h, thrown |-> TRUE, error |-> acceleration.error]
    ELSE Let(NewVector(h, VAdd(h.vecs[h.objs[o].position],
                               VMul(h.vecs[h.objs[o].velocity], dt))), LAMBDA np :
         Let(NewVector(np.heap, VAdd(h.vecs[h.objs[o].velocity],
                                     VMul(acceleration.value, dt))), LAMBDA nv :
           [heap |-> [nv.heap EXCEPT !.objs[o].velocity = nv.addr,
                                     !.objs[o].position = np.addr],
            thrown |-> FALSE, error |-> ""])))

\* an integrator that moves the body with its velocity before it computes
\* the acceleration
updateBodyEulerMoveFirst(h, o, force, dt) ==
  Let(NewVector(h, VAdd(h.vecs[h.objs[o].position],
                        VMul(h.vecs[h.objs[o].velocity], dt))), LAMBDA np :
  Let([np.heap EXCEPT !.objs[o].position = np.addr], LAMBDA h1 :
  Let(VDiv(force, h1.objs[o].mass), LAMBDA acceleration :
    IF acceleration.thrown
    THEN [heap |-> h1, thrown |-> TRUE, error |-> acceleration.error]
    ELSE Let(NewVector(h1, VAdd(h1.vecs[h1.objs[o].velocity],
                                VMul(acceleration.value, dt))), LAMBDA nv :
           [heap |-> [nv.heap EXCEPT !.objs[o].velocity = nv.addr],
            thrown |-> FALSE, error |-> ""]))))

\* updateBodyEuler(body, force, dt) on the body record at address o
updateBodyEuler(h, o, force, dt) ==
  Let(VDiv(force, h.objs[o].mass), LAMBDA acceleration :
    IF acceleration.thrown
    THEN [heap |-> h, thrown |-> TRUE, error |-> acceleration.error]
    ELSE Let(NewVector(h, VAdd(h.vecs[h.objs[o].velocity],
                               VMul(acceleration.value, dt))), LAMBDA nv :
         Let([nv.heap EXCEPT !.objs[o].velocity = nv.addr], LAMBDA h1 :
         Let(NewVector(h1, VAdd(h1.vecs[h1.objs[o].position],
                                VMul(h1.vecs[h1.objs[o].velocity], dt))), LAMBDA np :
           [heap |-> [np.heap EXCEPT !.objs[o].position = np.addr],
            thrown |-> FALSE, error |-> ""]))))

----------------------------------------------------------------------------
(* PhysicsSimulation / PhysicsSimulation3D; s is the driver object         *)
(* [dim, bodies, G, dt, time, isRunning], bodies the address of its array  *)

\* new PhysicsSimulation(bodies, G, dt) (dim = 2), new PhysicsSimulation3D (3)
NewSimulation(dim, bodies, G, dt) ==
  [dim |-> dim, bodies |-> bodies, G |-> G, dt |-> dt, time |-> Zero,
   isRunning |-> FALSE]

addBody(h, s, o) == [h EXCEPT !.arrs[s.bodies] = Append(@, o)]

\* the last index whose body has the id, 0 for -1
FindLastIndex(h, arr, id) ==
  IF \E i \in 1..Len(arr) : h.objs[arr[i]].id = id
  THEN CHOOSE i \in 1..Len(arr) :
         /\ h.objs[arr[i]].id = id
         /\ \A j \in (i + 1)..Len(arr) : h.objs[arr[j]].id # id
  ELSE 0

\* findIndex: the first index whose body has the id, 0 for -1
FindIndex(h, arr, id) ==
  IF \E i \in 1..Len(arr) : h.objs[arr[i]].id = id
  THEN CHOOSE i \in 1..Len(arr) :
         /\ h.objs[arr[i]].id = id
         /\ \A j \in 1..(i - 1) : h.objs[arr[j]].id # id
  ELSE 0

\* splice(index, 1)
Splice1(arr, index) ==
  [i \in 1..(Len(arr) - 1) |-> IF i < index THEN arr[i] ELSE arr[i + 1]]

removeBody(h, s, id) ==
  Let(FindIndex(h, h.arrs[s.bodies], id), LAMBDA index :
    IF index # 0
    THEN [heap |-> [h EXCEPT !.arrs[s.bodies] = Splice1(@, index)], ret |-> TRUE]
    ELSE [heap |-> h, ret |-> FALSE])

\* a first loop that keeps the force stored first under an id
RECURSIVE ForcesLoopFirstWins(_, _, _, _, _)
ForcesLoopFirstWins(h, s, k, forces, log) ==
  IF k > Len(h.arrs[s.bodies])
  THEN [forces |-> forces, thrown |-> FALSE, error |-> "", log |-> log]
  ELSE Let(BodyVal(h, h.arrs[s.bodies][k]), LAMBDA body :
       Let(calculateTotalGravitationalForce(body, BodiesVal(h, s.bodies), s.G),
           LAMBDA totalForce :
         IF totalForce.thrown
         THEN [forces |-> forces, thrown |-> TRUE, error |-> totalForce.error,
               log |-> log]
         ELSE ForcesLoopFirstWins(h, s, k + 1,
                IF body.id \in DOMAIN forces THEN forces
                ELSE Put(forces, body.id, totalForce.value),
                Append(log, <<"force", k>>))))

\* first loop of step(): forces is the Map from id to total force, log the
\* order of the loop bodies executed so far
RECURSIVE ForcesLoop(_, _, _, _, _)
ForcesLoop(h, s, k, forces, log) ==
  IF k > Len(h.arrs[s.bodies])
  THEN [forces |-> forces, thrown |-> FALSE, error |-> "", log |-> log]
  ELSE Let(BodyVal(h, h.arrs[s.bodies][k]), LAMBDA body :
       Let(calculateTotalGravitationalForce(body, BodiesVal(h, s.bodies), s.G),
           LAMBDA totalForce :
         IF totalForce.thrown
         THEN [forces |-> forces, thrown |-> TRUE, error |-> totalForce.error,
               log |-> log]
         ELSE ForcesLoop(h, s, k + 1, Put(forces, body.id, totalForce.value),
                         Append(log, <<"force", k>>))))

\* forces.get(body.id) || Vector.zero()
ForceOf(forces, id, dim) == IF id \in DOMAIN forces THEN forces[id] ELSE VZero(dim)

\* second loop of step()
RECURSIVE UpdateLoop(_, _, _, _, _)
UpdateLoop(h, s, forces, k, log) ==
  IF k > Len(h.arrs[s.bodies])
  THEN [heap |-> h, thrown |-> FALSE, error |-> "", log |-> log]
  ELSE Let(updateBodyEuler(h, h.arrs[s.bodies][k],
                           ForceOf(forces, h.objs[h.arrs[s.bodies][k]].id, s.dim),
                           s.dt), LAMBDA u :
         IF u.thrown
         THEN [heap |-> u.heap, thrown |-> TRUE, error |-> u.error,
               log |-> Append(log, <<"update", k>>)]
         ELSE UpdateLoop(u.heap, s, forces, k + 1, Append(log, <<"update", k>>)))

\* a step() that integrates each body as soon as its force is computed
RECURSIVE OnePassLoop(_, _, _, _)
OnePassLoop(h, s, k, log) ==
  IF k > Len(h.arrs[s.bodies])
  THEN [heap |-> h, sim |-> [s EXCEPT !.time = Plus(@, s.dt)],
        thrown |-> FALSE, error |-> "", log |-> log]
  ELSE Let(calculateTotalGravitationalForce(BodyVal(h, h.arrs[s.bodies][k]),
                                            BodiesVal(h, s.bodies), s.G),
           LAMBDA totalForce :
       Let(updateBodyEuler(h, h.arrs[s.bodies][k], totalForce.value, s.dt),
           LAMBDA u :
         IF u.thrown
         THEN [heap |-> u.heap, sim |-> s, thrown |-> TRUE, error |-> u.error,
               log |-> log \o <<<<"force", k>>, <<"update", k>>>>]
         ELSE OnePassLoop(u.heap, s, k + 1,
                          log \o <<<<"force", k>>, <<"update", k>>>>)))

stepOnePass(h, s) == OnePassLoop(h, s, 1, <<>>)

\* a step that returns at once, the clock as it is, when there are no bodies
stepIdleWhenEmpty(h, s) ==
  IF h.arrs[s.bodies] = <<>>
  THEN [heap |-> h, sim |-> s, thrown |-> FALSE, error |-> "", log |-> <<>>]
  ELSE Let(ForcesLoop(h, s, 1, <<>>, <<>>), LAMBDA p1 :
         IF p1.thrown
         THEN [heap |-> h, sim |-> s, thrown |-> TRUE, error |-> p1.error,
               log |-> p1.log]
         ELSE Let(UpdateLoop(h, s, p1.forces, 1, p1.log), LAMBDA p2 :
                IF p2.thrown
                THEN [heap |-> p2.heap, sim |-> s, thrown |-> TRUE,
                      error |-> p2.error, log |-> p2.log]
                ELSE [heap |-> p2.heap, sim |-> [s EXCEPT !.time = Plus(@, s.dt)],
                      thrown |-> FALSE, error |-> "", log |-> p2.log]))

step(h, s) ==
  Let(ForcesLoop(h, s, 1, <<>>, <<>>), LAMBDA p1 :
    IF p1.thrown
    THEN [heap |-> h, sim |-> s, thrown |-> TRUE, error |-> p1.error, log |-> p1.log]
    ELSE Let(UpdateLoop(h, s, p1.forces, 1, p1.log), LAMBDA p2 :
           IF p2.thrown
           THEN [heap |-> p2.heap, sim |-> s, thrown |-> TRUE, error |-> p2.error,
                 log |-> p2.log]
           ELSE [heap |-> p2.heap, sim |-> [s EXCEPT !.time = Plus(@, s.dt)],
                 thrown |-> FALSE, error |-> "", log |-> p2.log]))

\* for (let i = 0; i < steps; i++) this.step(), from counter i on; done is
\* the number of step() calls that returned
RECURSIVE SimulateLoop(_, _, _, _)
SimulateLoop(h, s, i, steps) ==
  IF ~(i < steps)
  THEN [heap |-> h, sim |-> s, thrown |-> FALSE, error |-> "", done |-> i]
  ELSE Let(step(h, s), LAMBDA r :
         IF r.thrown
         THEN [heap |-> r.heap, sim |-> r.sim, thrown |-> TRUE,
               error |-> r.error, done |-> i]
         ELSE SimulateLoop(r.heap, r.sim, i + 1, steps))

\* a loop that makes one iteration fewer
simulateOneLess(h, s, steps) ==
  [SimulateLoop(h, s, 1, steps) EXCEPT !.done = IF steps > 0 THEN @ - 1 ELSE 0]

simulate(h, s, steps) == SimulateLoop(h, s, 0, steps)

\* h with a copy of every vector of body record o, and o with its vector
\* fields pointing at the copies: position: body.position.clone(), ...
RECURSIVE CloneFields(_, _, _)
CloneFields(h, body, fs) ==
  IF fs = <<>> THEN [heap |-> h, body |-> body]
  ELSE Let(Clone(h, body[Head(fs)]), LAMBDA c :
         CloneFields(c.heap, [body EXCEPT ![Head(fs)] = c.addr], Tail(fs)))

\* the record { ...body }: a copy of the body record with the body's own
\* vectors
SnapshotBodyShallow(h, o, dim) ==
  Let(Fresh(DOMAIN h.objs), LAMBDA a :
    [heap |-> [h EXCEPT !.objs = Put(@, a, h.objs[o])], addr |-> a])

\* the record { ...body, position: clone, velocity: clone
\* (, angularMomentum: clone) } of getState().bodies.map
SnapshotBody(h, o, dim) ==
  Let(CloneFields(h, h.objs[o],
                  IF dim = 2 THEN <<"position", "velocity">>
                  ELSE VecFieldsSeq(h.objs[o])), LAMBDA c :
  Let(Fresh(DOMAIN c.heap.objs), LAMBDA a :
    [heap |-> [c.heap EXCEPT !.objs = Put(@, a, c.body)], addr |-> a]))

RECURSIVE SnapshotLoop(_, _, _, _, _)
SnapshotLoop(h, arr, dim, k, acc) ==
  IF k > Len(arr) THEN [heap |-> h, elems |-> acc]
  ELSE Let(SnapshotBody(h, arr[k], dim), LAMBDA n :
         SnapshotLoop(n.heap, arr, dim, k + 1, Append(acc, n.addr)))

getState(h, s) ==
  Let(SnapshotLoop(h, h.arrs[s.bodies], s.dim, 1, <<>>), LAMBDA m :
  Let(NewArray(m.heap, m.elems), LAMBDA a :
    [heap |-> a.heap,
     state |-> [bodies |-> a.addr, time |-> s.time, G |-> s.G, dt |-> s.dt]]))

\* a reset that leaves isRunning as it is
resetTime(s) == [s EXCEPT !.time = Zero]

reset(s) == [s EXCEPT !.time = Zero, !.isRunning = FALSE]

\* for (const body of this.bodies) of getTotalAngularMomentum, from the k-th
\* body on
RECURSIVE AngularLoop(_, _, _)
AngularLoop(bs, k, totalAngularMomentum) ==
  IF k > Len(bs) THEN totalAngularMomentum
  ELSE Let(VMul(bs[k].velocity, bs[k].mass), LAMBDA momentum :
       Let(VCross(bs[k].position, momentum), LAMBDA angularMomentum :
         AngularLoop(bs, k + 1, VAdd(totalAngularMomentum, angularMomentum))))

getTotalAngularMomentum(h, s) == AngularLoop(BodiesVal(h, s.bodies), 1, VZero(3))

\* The numbers getTotalEnergy can return include the values the number format
\* has for a division by zero: Infinity, -Infinity and NaN.

\* a / b of finite numbers, b >= 0: a / 0 is Infinity, -Infinity or NaN
DivideJS(a, b) ==
  IF QIsZero(b)
  THEN (IF a[1] > 0 THEN Infinity ELSE IF a[1] < 0 THEN NegInfinity ELSE NaN)
  ELSE Divide(a, b)

\* x - y
MinusJS(x, y) ==
  IF IsFinite(x) /\ IsFinite(y) THEN Minus(x, y)
  ELSE IF x = NaN \/ y = NaN THEN NaN
  ELSE IF IsFinite(y) THEN x
  ELSE IF IsFinite(x) THEN QNeg(y)
  ELSE IF x = y THEN NaN ELSE x

\* x + y
PlusJS(x, y) == MinusJS(x, QNeg(y))

\* for (const body of this.bodies) kineticEnergy += 0.5 * body.mass *
\* body.velocity.magnitude() ** 2, from index k on
RECURSIVE KineticLoop(_, _, _)
KineticLoop(bodies, k, kineticEnergy) ==
  IF k > Len(bodies) THEN kineticEnergy
  ELSE Let(VMagnitude(bodies[k].velocity), LAMBDA speed :
         KineticLoop(bodies, k + 1,
                     Plus(kineticEnergy,
                          Times(Times(Q(1, 2), bodies[k].mass), Times(speed, speed)))))

\* the loops over the pairs i < j, from the pair (i, j) on:
\* potentialEnergy -= (this.G * body1.mass * body2.mass) / distance
RECURSIVE PotentialLoop(_, _, _, _, _)
PotentialLoop(bodies, G, i, j, potentialEnergy) ==
  IF i > Len(bodies) THEN potentialEnergy
  ELSE IF j > Len(bodies) THEN PotentialLoop(bodies, G, i + 1, i + 2, potentialEnergy)
  ELSE Let(VDistanceTo(bodies[i].position, bodies[j].position), LAMBDA distance :
         PotentialLoop(bodies, G, i, j + 1,
                       MinusJS(potentialEnergy,
                               DivideJS(Times(Times(G, bodies[i].mass), bodies[j].mass),
                                        distance))))

\* PhysicsSimulation3D.getTotalEnergy()
getTotalEnergy(h, s) ==
  Let(BodiesVal(h, s.bodies), LAMBDA bodies :
    Ret(PlusJS(KineticLoop(bodies, 1, Zero),
               PotentialLoop(bodies, s.G, 1, 2, Zero))))

----------------------------------------------------------------------------
(* SimulationRunner.  The runner is [animationId, pending, onUpdate]:
   animationId is Null or the handle the last requestAnimationFrame call
   returned, pending the handles of the frame requests the browser has still
   to serve, onUpdate whether the runner was constructed with a callback.
   Only the equality of handles is observable, so they are renamed after
   every operation: the handle the runner holds becomes 1, the other pending
   ones 2, 3, ...

   The onUpdate callback is caller code: calls is the sequence of runner
   methods it calls during one invocation.  A callback invoked while another
   invocation is running (start() called from the callback) calls nothing.
   The results give the number of step() calls made (stepped) and returned
   (done), whether the operation threw, and the calls the callback made
   (ran). *)

Null == 0

NewRunner(onUpdate) == [animationId |-> Null, pending |-> {}, onUpdate |-> onUpdate]

\* requestAnimationFrame(this.animate): a handle that is not in use
requestAnimationFrame(rn) ==
  CHOOSE id \in 1..(Cardinality(rn.pending) + 2) :
    /\ id \notin rn.pending \cup {rn.animationId}
    /\ \A other \in 1..(id - 1) : other \in rn.pending \cup {rn.animationId}

\* cancelAnimationFrame(id)
cancelAnimationFrame(pending, id) == pending \ {id}

\* the runner with its handles renamed
RenameHandles(rn) ==
  [rn EXCEPT
     !.animationId = IF @ = Null THEN Null ELSE 1,
     !.pending = (IF rn.animationId \in @ THEN {1} ELSE {})
                   \cup 2..(Cardinality(@ \ {rn.animationId}) + 1)]

Returned(h, s, rn) ==
  [heap |-> h, sim |-> s, runner |-> rn, stepped |-> 0, done |-> 0,
   thrown |-> FALSE, ran |-> <<>>]

stop(h, s, rn) ==
  Returned(h, [s EXCEPT !.isRunning = FALSE],
           IF rn.animationId # Null
           THEN [rn EXCEPT !.pending = cancelAnimationFrame(@, rn.animationId),
                           !.animationId = Null]
           ELSE rn)

RECURSIVE animate(_, _, _, _)

start(h, s, rn, calls) ==
  IF rn.animationId # Null THEN Returned(h, s, rn)
  ELSE animate(h, [s EXCEPT !.isRunning = TRUE], rn, calls)

toggle(h, s, rn, calls) ==
  IF s.isRunning THEN stop(h, s, rn) ELSE start(h, s, rn, calls)

\* the callback calls the runner methods named in calls one after the other;
\* a call that throws ends the callback
RECURSIVE RunCalls(_, _, _, _)
RunCalls(h, s, rn, calls) ==
  IF calls = <<>> THEN Returned(h, s, rn)
  ELSE Let(IF Head(calls) = "stop" THEN stop(h, s, rn)
           ELSE IF Head(calls) = "start" THEN start(h, s, rn, <<>>)
           ELSE toggle(h, s, rn, <<>>), LAMBDA c :
         IF c.thrown THEN c
         ELSE Let(RunCalls(c.heap, c.sim, c.runner, Tail(calls)), LAMBDA d :
                [d EXCEPT !.stepped = @ + c.stepped, !.done = @ + c.done]))

\* this.animationId = requestAnimationFrame(this.animate)
Request(rn) ==
  Let(requestAnimationFrame(rn), LAMBDA id :
    [rn EXCEPT !.pending = @ \cup {id}, !.animationId = id])

animate(h, s, rn, calls) ==
  Let(step(h, s), LAMBDA r :
    IF r.thrown
    THEN [heap |-> r.heap, sim |-> r.sim, runner |-> rn, stepped |-> 1,
          done |-> 0, thrown |-> TRUE, ran |-> <<>>]
    ELSE IF ~rn.onUpdate
    THEN [heap |-> r.heap, sim |-> r.sim, runner |-> Request(rn), stepped |-> 1,
          done |-> 1, thrown |-> FALSE, ran |-> <<>>]
    ELSE Let(getState(r.heap, r.sim), LAMBDA state :
         Let(RunCalls(state.heap, r.sim, rn, calls), LAMBDA c :
           [heap |-> c.heap, sim |-> c.sim,
            runner |-> IF c.thrown THEN c.runner ELSE Request(c.runner),
            stepped |-> 1 + c.stepped, done |-> 1 + c.done,
            thrown |-> c.thrown, ran |-> calls])))

\* the browser serves the pending frame request id
frame(h, s, rn, id, calls) ==
  animate(h, s, [rn EXCEPT !.pending = @ \ {id}], calls)

----------------------------------------------------------------------------
(* Bounds and inputs *)

FloatBits == 3      \* significand of the floating-point format
MaxSteps == 2       \* step() calls a caller makes on a driver with bodies
MaxTicks == 6       \* step() calls a caller makes on a driver it adds no
                    \* body to
MaxNum == 20        \* step() is modelled while all coordinates are integers
                    \* of at most this absolute value

V2(x, y) == <<Num(x), Num(y)>>
V3(x, y, z) == <<Num(x), Num(y), Num(z)>>

\* parameter records the caller passes to createCelestialBody
Params2D ==
  [sun    |-> [id |-> "a", name |-> "Sun", mass |-> Num(2), radius |-> Num(1)],
   planet |-> [id |-> "b", name |-> "Planet", mass |-> Num(1),
               position |-> V2(2, 0), velocity |-> V2(-1, 0)],
   twin   |-> [id |-> "b", name |-> "Twin", mass |-> Num(3),
               position |-> V2(3, 4), velocity |-> V2(0, 1),
               radius |-> Num(2), color |-> "#C0C0C0"],
   probe  |-> [id |-> "c", name |-> "Probe", mass |-> Num(5),
               position |-> V2(2, 0)],
   dust   |-> [id |-> "d", name |-> "Dust", mass |-> Num(0),
               position |-> V2(3, 0), velocity |-> V2(1, 1)]]

\* parameter records the caller passes to createCelestialBody3D
Params3D ==
  [sun    |-> [id |-> "a", name |-> "Sun", mass |-> Num(2), radius |-> Num(1)],
   planet |-> [id |-> "b", name |-> "Planet", mass |-> Num(1),
               position |-> V3(2, 0, 0), velocity |-> V3(-1, 0, 0),
               angularMomentum |-> V3(0, 0, 0)],
   twin   |-> [id |-> "b", name |-> "Twin", mass |-> Num(3),
               position |-> V3(3, 0, 4), velocity |-> V3(0, 1, 0),
               radius |-> Num(2), color |-> "#C0C0C0"],
   probe  |-> [id |-> "c", name |-> "Probe", mass |-> Num(5),
               position |-> V3(2, 0, 0), inclination |-> Num(1)],
   dust   |-> [id |-> "d", name |-> "Dust", mass |-> Num(0),
               position |-> V3(3, 0, 0), velocity |-> V3(1, 1, 1)],
   giant  |-> [id |-> "e", name |-> "Giant", mass |-> Num(2048),
               position |-> V3(3, 4, 0)]]

Templates == {"sun", "planet", "twin", "probe", "dust"}
Ids == {"a", "b", "c", "d"}

\* the callers: the number format, the driver the caller constructs (dim,
\* array, G, dt), the bodies it creates later to add them, and the number of
\* step() calls it makes
Caller(p, dim, bodies, G, dt, toAdd, steps) ==
  [precision |-> p, dim |-> dim, bodies |-> bodies, G |-> G, dt |-> dt,
   spare |-> toAdd, steps |-> steps, onUpdate |-> FALSE, keeps |-> FALSE]

Callers ==
  {Caller(0, 2, <<>>, Num(4), Num(1), {"planet", "dust"}, MaxSteps),
   Caller(0, 2, <<"sun", "planet">>, Num(4), Num(1), {"twin", "probe"}, MaxSteps),
   Caller(0, 2, <<"planet", "twin", "sun">>, Num(4), Num(2), {}, MaxSteps),
   Caller(0, 3, <<"sun", "planet">>, Num(4), Num(1), {"probe"}, MaxSteps),
   Caller(0, 3, <<>>, Num(4), Num(2), {}, MaxTicks),
   Caller(FloatBits, 2, <<>>, Num(4), Q(3, 8), {}, MaxTicks),
   Caller(FloatBits - 1, 2, <<>>, Num(4), Num(1), {}, MaxTicks),
   Caller(0, 2, <<>>, Num(4), Num(-1), {}, MaxSteps)}

\* the callers that keep the snapshot getState() returns
SnapCallers ==
  {Caller(0, 2, <<"sun", "planet">>, Num(4), Num(1), {"probe"}, MaxSteps),
   Caller(0, 3, <<"planet", "sun">>, Num(4), Num(1), {}, MaxSteps)}

\* the value a caller writes into a snapshot, differing from every value
\* the bodies hold
Written == Num(7)

\* the arguments the callers pass to simulate
SimulateArgs == {-1, 0, 1, 2, 3}

\* the body createCelestialBody / createCelestialBody3D returns for template t
MakeBody(dim, t) ==
  IF dim = 2 THEN createCelestialBody(Params2D[t])
  ELSE createCelestialBody3D(Params3D[t])


----------------------------------------------------------------------------
(* State *)

NoSnap == [taken |-> FALSE, written |-> FALSE, bodies |-> 0, time |-> Zero, G |-> Zero, dt |-> Zero]

\* the arrays the program holds: the driver's, and the snapshot's if any
Roots(s, sn) == IF sn.taken THEN <<s.bodies, sn.bodies>> ELSE <<s.bodies>>

\* their addresses after garbage collection
SimAddr == Len(<<"bodies">>)
SnapAddr == Len(<<"bodies", "snapshot">>)

\* what a caller can observe of the driver
SimView(h, s) ==
  [bodies |-> BodiesVal(h, s.bodies),
   G |-> s.G, dt |-> s.dt, time |-> s.time, isRunning |-> s.isRunning]

\* what a caller can observe of the snapshot it holds
SnapView(h, sn) ==
  IF sn.taken THEN [sn EXCEPT !.bodies = BodiesVal(h, sn.bodies)] ELSE sn

Op(name) == [op |-> name, id |-> "", n |-> 0, ret |-> FALSE, thrown |-> FALSE,
             log |-> <<>>, ran |-> <<>>]

InitOf(callers) ==
  \E c \in callers :
    /\ precision = c.precision
    /\ \E arr \in {NewArray(EmptyHeap, <<>>)} :
         \E bs \in {StoreBodies(arr.heap, [i \in 1..Len(c.bodies) |->
                                            MakeBody(c.dim, c.bodies[i])], <<>>)} :
           heap = Collect([bs.heap EXCEPT !.arrs[arr.addr] = bs.elems], <<arr.addr>>)
    /\ sim = NewSimulation(c.dim, SimAddr, c.G, c.dt)
    /\ runner = NewRunner(c.onUpdate)
    /\ snap = NoSnap
    /\ spare = c.spare
    /\ stepsLeft = c.steps
    /\ completed = 0
    /\ last = Op("new")
    /\ passed = IF c.keeps THEN <<SimAddr>> ELSE <<>>
    /\ others = <<>>

Init == InitOf(Callers)

InitSnap == InitOf(SnapCallers)

----------------------------------------------------------------------------
(* Which configurations are stepped *)

Small(q) == Abs(q[1]) <= MaxNum /\ q[2] = 1

\* in exact arithmetic: all coordinates are small integers and all distances
\* the step takes a square root of are rational
Steppable(h, s) ==
  precision = 0 =>
    \A i \in 1..Len(h.arrs[s.bodies]) :
      /\ \A f \in {"position", "velocity"} :
           \A c \in 1..s.dim : Small(h.vecs[h.objs[h.arrs[s.bodies][i]][f]][c])
      /\ \A j \in 1..Len(h.arrs[s.bodies]) :
           h.objs[h.arrs[s.bodies][j]].id # h.objs[h.arrs[s.bodies][i]].id =>
           HasSqrt(SumSq(VSub(h.vecs[h.objs[h.arrs[s.bodies][j]].position],
                              h.vecs[h.objs[h.arrs[s.bodies][i]].position])))

RECURSIVE SteppableFor(_, _, _)
SteppableFor(h, s, steps) ==
  IF steps <= 0 THEN TRUE
  ELSE IF ~Steppable(h, s) THEN FALSE
  ELSE Let(step(h, s), LAMBDA r :
         IF r.thrown THEN TRUE ELSE SteppableFor(r.heap, r.sim, steps - 1))

----------------------------------------------------------------------------
(* Operations of the driver *)

AddBody(t) ==
  /\ t \in spare
  /\ spare' = spare \ {t}
  /\ \E b \in {StoreBody(heap, MakeBody(sim.dim, t))} :
       heap' = Collect(addBody(b.heap, sim, b.addr), Roots(sim, snap))
  /\ last' = Op("addBody")
  /\ UNCHANGED <<passed, others, precision, sim, runner, snap, stepsLeft, completed>>

RemoveBody(id) ==
  /\ \E r \in {removeBody(heap, sim, id)} :
       /\ heap' = Collect(r.heap, Roots(sim, snap))
       /\ last' = [Op("removeBody") EXCEPT !.id = id, !.ret = r.ret]
  /\ UNCHANGED <<passed, others, precision, sim, runner, snap, spare, stepsLeft, completed>>

Step ==
  /\ stepsLeft >= 1
  /\ Steppable(heap, sim)
  /\ \E r \in {step(heap, sim)} :
       /\ heap' = Collect(r.heap, Roots(r.sim, snap))
       /\ sim' = r.sim
       /\ completed' = IF r.thrown THEN completed ELSE completed + 1
       /\ last' = [Op("step") EXCEPT !.thrown = r.thrown, !.log = r.log]
  /\ stepsLeft' = stepsLeft - 1
  /\ UNCHANGED <<passed, others, precision, runner, snap, spare>>

Simulate(steps) ==
  /\ steps <= stepsLeft
  /\ SteppableFor(heap, sim, steps)
  /\ \E r \in {simulate(heap, sim, steps)} :
       /\ heap' = Collect(r.heap, Roots(r.sim, snap))
       /\ sim' = r.sim
       /\ last' = [Op("simulate") EXCEPT !.n = steps, !.thrown = r.thrown]
       /\ completed' = completed + r.done
  /\ stepsLeft' = IF steps > 0 THEN stepsLeft - steps ELSE stepsLeft
  /\ UNCHANGED <<passed, others, precision, runner, snap, spare>>

GetState ==
  /\ \E r \in {getState(heap, sim)} :
       /\ heap' = Collect(r.heap, <<sim.bodies, r.state.bodies>>)
       /\ snap' = [taken |-> TRUE, written |-> FALSE, bodies |-> SnapAddr, time |-> r.state.time,
                   G |-> r.state.G, dt |-> r.state.dt]
  /\ last' = Op("getState")
  /\ UNCHANGED <<passed, others, precision, sim, runner, spare, stepsLeft, completed>>

Reset ==
  /\ sim' = reset(sim)
  /\ completed' = 0
  /\ last' = [Op("reset") EXCEPT !.log = <<SimView(heap, sim)>>]
  /\ UNCHANGED <<passed, others, precision, heap, runner, snap, spare, stepsLeft>>

\* a call of the runner with result r
RunnerCall(name, r) ==
  /\ r.stepped <= stepsLeft
  /\ heap' = Collect(r.heap, Roots(r.sim, snap))
  /\ sim' = r.sim
  /\ runner' = RenameHandles(r.runner)
  /\ stepsLeft' = stepsLeft - r.stepped
  /\ completed' = completed + r.done
  /\ last' = [Op(name) EXCEPT !.thrown = r.thrown, !.n = r.stepped, !.ran = r.ran]
  /\ UNCHANGED <<passed, others, precision, snap, spare>>

\* step() is called only in the configurations Step is; a callback may make
\* the operation call step() a second time
MayStep(stepping) ==
  stepping =>
    /\ stepsLeft >= 1
    /\ IF runner.onUpdate THEN SteppableFor(heap, sim, 2) ELSE Steppable(heap, sim)

\* what the onUpdate callback of the runner may call in one invocation
Calls ==
  IF runner.onUpdate
  THEN {<<>>, <<"stop">>, <<"start">>, <<"toggle">>, <<"stop", "start">>}
  ELSE {<<>>}

Start ==
  /\ MayStep(runner.animationId = Null)
  /\ \E calls \in Calls :
       \E r \in {start(heap, sim, runner, calls)} : RunnerCall("start", r)

Stop == \E r \in {stop(heap, sim, runner)} : RunnerCall("stop", r)

Toggle ==
  /\ MayStep(~sim.isRunning /\ runner.animationId = Null)
  /\ \E calls \in Calls :
       \E r \in {toggle(heap, sim, runner, calls)} : RunnerCall("toggle", r)

Frame ==
  /\ runner.pending # {}
  /\ MayStep(TRUE)
  /\ \E id \in runner.pending, calls \in Calls :
       \E r \in {frame(heap, sim, runner, id, calls)} : RunnerCall("frame", r)

Next ==
  \/ \E t \in Templates : AddBody(t)
  \/ \E id \in Ids : RemoveBody(id)
  \/ Step
  \/ \E steps \in SimulateArgs : Simulate(steps)
  \/ Reset
  \/ Start
  \/ Stop
  \/ Toggle
  \/ Frame

Spec == Init /\ [][Next]_vars

----------------------------------------------------------------------------
(* step() *)

\* the last element of bs with the id: the one whose force the Map of
\* step() holds under that id
LastWithId(bs, id) ==
  CHOOSE j \in 1..Len(bs) :
    bs[j].id = id /\ \A l \in (j + 1)..Len(bs) : bs[l].id # id

\* the total force on the body the Map holds under the id of bs[k],
\* computed from the bodies bs
ForceFrom(bs, k, G) ==
  calculateTotalGravitationalForce(bs[LastWithId(bs, bs[k].id)], bs, G).value

\* C1: step() is a two-phase update. In every step() call no force is
\* computed after a body has been integrated, a body is integrated only
\* when the forces of all bodies have been computed, and in a step that
\* completes every body gets the velocity
\* old velocity + (force / mass) * dt and the position
\* old position + new velocity * dt, where force is the total force computed
\* from the positions all bodies had before the step (the force stored
\* under the body's id).
C1_StepIsTwoPhase ==
  [][last'.op = "step" =>
       /\ \A p, q \in 1..Len(last'.log) :
            p < q /\ last'.log[q][1] = "force" => last'.log[p][1] = "force"
       /\ (\E p \in 1..Len(last'.log) : last'.log[p][1] = "update") =>
            \A k \in 1..Len(heap.arrs[sim.bodies]) :
              <<"force", k>> \in Range(last'.log)
       /\ ~last'.thrown =>
            /\ Len(heap'.arrs[sim'.bodies]) = Len(heap.arrs[sim.bodies])
            /\ \A k \in 1..Len(heap.arrs[sim.bodies]) :
                 /\ BodyVal(heap', heap'.arrs[sim'.bodies][k]).velocity =
                      VAdd(BodyVal(heap, heap.arrs[sim.bodies][k]).velocity,
                           VMul(VDiv(ForceFrom(BodiesVal(heap, sim.bodies), k, sim.G),
                                     BodyVal(heap, heap.arrs[sim.bodies][k]).mass).value,
                                sim.dt))
                 /\ BodyVal(heap', heap'.arrs[sim'.bodies][k]).position =
                      VAdd(BodyVal(heap, heap.arrs[sim.bodies][k]).position,
                           VMul(BodyVal(heap', heap'.arrs[sim'.bodies][k]).velocity,
                                sim.dt))]_vars

\* a step() has completed in which the sun and the planet attracted each
\* other: the sun, created at rest, moves
C1_Witness ==
  /\ last.op = "step" /\ ~last.thrown
  /\ Len(last.log) >= 4
  /\ \E k \in 1..Len(heap.arrs[sim.bodies]) :
       /\ BodyVal(heap, heap.arrs[sim.bodies][k]).name = "Sun"
       /\ BodyVal(heap, heap.arrs[sim.bodies][k]).velocity # VZero(sim.dim)

\* C4: reset() sets time to 0 and isRunning to false; the bodies array, its
\* body records and their vectors, G and dt are as they were before the call.
C4_ResetFrame ==
  [][last'.op = "reset" =>
       /\ sim'.time = Zero
       /\ sim'.isRunning = FALSE
       /\ sim'.G = sim.G /\ sim'.dt = sim.dt
       /\ sim'.bodies = sim.bodies /\ sim'.dim = sim.dim
       /\ heap' = heap
       /\ BodiesVal(heap', sim'.bodies) = BodiesVal(heap, sim.bodies)]_vars

\* reset() was called on a running driver whose clock had advanced and whose
\* bodies had moved
C4_Witness ==
  /\ last.op = "reset"
  /\ last.log[1].isRunning
  /\ last.log[1].time # Zero
  /\ \E k \in 1..Len(heap.arrs[sim.bodies]) :
       /\ BodyVal(heap, heap.arrs[sim.bodies][k]).name = "Planet"
       /\ BodyVal(heap, heap.arrs[sim.bodies][k]).position # Params2D.planet.position
       /\ BodyVal(heap, heap.arrs[sim.bodies][k]).position # Params3D.planet.position

\* bs without its first body of the given id
RECURSIVE WithoutFirst(_, _)
WithoutFirst(bs, id) ==
  IF bs = <<>> THEN <<>>
  ELSE IF Head(bs).id = id THEN Tail(bs)
  ELSE <<Head(bs)>> \o WithoutFirst(Tail(bs), id)

\* C5: removeBody(id) returns true exactly when a body of the collection has
\* the id; on true the collection is the one before the call without its
\* first body of that id (one body fewer, the others in their order); on
\* false the collection is as before; time, G and dt are unchanged.
C5_RemoveBody ==
  [][last'.op = "removeBody" =>
       /\ last'.ret = (\E k \in 1..Len(heap.arrs[sim.bodies]) :
                         heap.objs[heap.arrs[sim.bodies][k]].id = last'.id)
       /\ last'.ret =>
            /\ Len(heap'.arrs[sim'.bodies]) = Len(heap.arrs[sim.bodies]) - 1
            /\ BodiesVal(heap', sim'.bodies) =
                 WithoutFirst(BodiesVal(heap, sim.bodies), last'.id)
       /\ ~last'.ret =>
            BodiesVal(heap', sim'.bodies) = BodiesVal(heap, sim.bodies)
       /\ sim' = sim]_vars

\* removeBody("b") has removed the first of two bodies with id "b": the
\* Planet is gone and the Twin is still in the collection
C5_Witness ==
  /\ last.op = "removeBody" /\ last.id = "b" /\ last.ret
  /\ \E k \in 1..Len(heap.arrs[sim.bodies]) :
       heap.objs[heap.arrs[sim.bodies][k]].name = "Twin"
  /\ \A k \in 1..Len(heap.arrs[sim.bodies]) :
       heap.objs[heap.arrs[sim.bodies][k]].name # "Planet"
  /\ "planet" \notin spare

\* the statements step(); ...; step() (n of them): a call that throws ends
\* the sequence
RECURSIVE StepTimes(_, _, _)
StepTimes(h, s, n) ==
  IF n <= 0 THEN [heap |-> h, sim |-> s, thrown |-> FALSE]
  ELSE Let(StepTimes(h, s, n - 1), LAMBDA before :
         IF before.thrown THEN before
         ELSE Let(step(before.heap, before.sim), LAMBDA r :
                [heap |-> r.heap, sim |-> r.sim, thrown |-> r.thrown]))

\* C6: simulate(steps) leaves the driver as steps consecutive step() calls
\* leave it, and leaves it unchanged when steps <= 0.
C6_SimulateIsRepeatedStep ==
  [][last'.op = "simulate" =>
       /\ last'.n <= 0 => heap' = heap /\ sim' = sim
       /\ \A r \in {StepTimes(heap, sim, last'.n)} :
            /\ SimView(heap', sim') = SimView(r.heap, r.sim)
            /\ last'.thrown = r.thrown]_vars

\* simulate(2) has returned on a driver with bodies
C6_Witness ==
  /\ last.op = "simulate" /\ last.n = MaxSteps /\ ~last.thrown
  /\ Len(heap.arrs[sim.bodies]) >= 2
  /\ sim.time = Times(Num(MaxSteps), sim.dt)
  /\ \E k \in 1..Len(heap.arrs[sim.bodies]) :
       /\ BodyVal(heap, heap.arrs[sim.bodies][k]).name = "Sun"
       /\ BodyVal(heap, heap.arrs[sim.bodies][k]).velocity # VZero(sim.dim)

\* dt added k times to 0, each sum in the number format: time after k
\* executions of this.time += this.dt
RECURSIVE AddedTimes(_, _)
AddedTimes(dt, k) == IF k <= 0 THEN Zero ELSE Plus(AddedTimes(dt, k - 1), dt)

\* C7 as stated: after k completed steps since construction (or the last
\* reset) time is k * dt.
C7_TimeIsStepsTimesDt == sim.time = Times(Num(completed), sim.dt)

\* C7, amended: a step() that completes sets time to time + dt in the number
\* format, after every body has been updated; a step() that throws and the
\* operations that make no step leave time alone, reset() sets it to 0; so
\* after k completed steps since construction (or the last reset) time is dt
\* added k times in the number format, which is k * dt when no sum is rounded.
C7_TimeIsDtAddedPerStep ==
  /\ [](/\ sim.time = AddedTimes(sim.dt, completed)
        /\ precision = 0 => sim.time = QMul(Num(completed), sim.dt))
  /\ [][/\ last'.op = "step" /\ ~last'.thrown =>
             /\ sim'.time = Plus(sim.time, sim.dt)
             /\ \A k \in 1..Len(heap.arrs[sim.bodies]) :
                  <<"update", k>> \in Range(last'.log)
        /\ last'.op = "step" /\ last'.thrown => sim'.time = sim.time
        /\ last'.op \in {"addBody", "removeBody", "getState", "write", "stop"} =>
             sim'.time = sim.time
        /\ completed' = completed => sim'.time = sim.time \/ last'.op = "reset"
        /\ last'.op = "reset" => sim'.time = Zero
        /\ sim'.dt = sim.dt]_vars

\* six steps have completed on the driver without bodies whose dt is 3/8, and
\* the six sums gave another number than the product 6 * dt
C7_Witness ==
  /\ completed = MaxTicks
  /\ heap.arrs[sim.bodies] = <<>>
  /\ precision > 0
  /\ sim.time = AddedTimes(sim.dt, MaxTicks)
  /\ sim.time # Times(Num(MaxTicks), sim.dt)

\* C17 as stated: over the driver's operations time never decreases, and it
\* grows with every step().
C17_TimeNeverDecreases ==
  [][/\ QLeq(sim.time, sim'.time)
     /\ last'.op = "step" => ~QLeq(sim'.time, sim.time)]_vars

\* C17, amended: reset() sets time back to 0; over every other operation
\* (addBody, removeBody, step, simulate, getState) time does not decrease as
\* long as dt is not negative; a step() that completes sets time to
\* time + dt in the number format, which for a positive dt is greater than
\* time unless the sum rounds back to time, and is less than time for a
\* negative dt; a step() that throws leaves time as it was.
C17_TimeGrowsUntilReset ==
  [][/\ last'.op = "reset" => sim'.time = Zero
     /\ last'.op # "reset" /\ QLeq(Zero, sim.dt) => QLeq(sim.time, sim'.time)
     /\ last'.op = "step" /\ ~last'.thrown =>
          /\ sim'.time = Plus(sim.time, sim.dt)
          /\ ~QLeq(sim.dt, Zero) =>
               \/ ~QLeq(sim'.time, sim.time)
               \/ precision > 0 /\ sim'.time = sim.time
          /\ ~QLeq(Zero, sim.dt) => ~QLeq(sim.time, sim'.time)
     /\ last'.op = "step" /\ last'.thrown => sim'.time = sim.time]_vars

\* reset() has set time back to 0 on a driver that had stepped: time was
\* greater than 0 before the call
C17_Witness ==
  /\ last.op = "reset"
  /\ ~QLeq(last.log[1].time, Zero)
  /\ sim.time = Zero

\* a step() has completed whose sum time + dt rounded back to time: more steps
\* have completed than dt fits into time
C17_SumRoundsBack ==
  /\ last.op = "step" /\ ~last.thrown
  /\ ~QLeq(sim.dt, Zero)
  /\ Plus(sim.time, sim.dt) = sim.time
  /\ ~QLeq(QMul(Num(completed), sim.dt), sim.time)

\* C12: after a step() call, whether it returned or threw, either every body
\* was advanced and time has grown by dt, or no body and not time has changed.
C12_StepIsAtomic ==
  [][last'.op = "step" =>
       \/ /\ ~last'.thrown
          /\ \A k \in 1..Len(heap.arrs[sim.bodies]) :
               <<"update", k>> \in Range(last'.log)
          /\ sim'.time = Plus(sim.time, sim.dt)
       \/ SimView(heap', sim') = SimView(heap, sim)]_vars

\* the bodies of the caller that constructs the driver with the Planet, the
\* Twin, which has the Planet's id, and the Sun
PlanetTwinSun == <<MakeBody(2, "planet"), MakeBody(2, "twin"), MakeBody(2, "sun")>>

\* the velocity of body after updateBodyEuler(body, force, dt)
VelocityAfter(body, force, dt) ==
  VAdd(body.velocity, VMul(VDiv(force, body.mass).value, dt))

\* C16: when two bodies of the collection share an id, a step() that
\* completes integrates both with the total force computed for the one that
\* is the last of that id in collection order; the force computed for the
\* earlier one is not used.
C16_LastForceWins ==
  [][last'.op = "step" /\ ~last'.thrown =>
       \A i, j \in 1..Len(heap.arrs[sim.bodies]) :
         /\ i < j
         /\ heap.objs[heap.arrs[sim.bodies][i]].id = heap.objs[heap.arrs[sim.bodies][j]].id
         /\ \A l \in (j + 1)..Len(heap.arrs[sim.bodies]) :
              heap.objs[heap.arrs[sim.bodies][l]].id # heap.objs[heap.arrs[sim.bodies][j]].id
         => \A k \in {i, j} :
              BodyVal(heap', heap'.arrs[sim'.bodies][k]).velocity =
                VelocityAfter(BodyVal(heap, heap.arrs[sim.bodies][k]),
                              calculateTotalGravitationalForce(
                                BodyVal(heap, heap.arrs[sim.bodies][j]),
                                BodiesVal(heap, sim.bodies), sim.G).value,
                              sim.dt)]_vars

\* the first step() of the driver constructed with the Planet, the Twin and
\* the Sun: the Planet has the velocity the force on the Twin gives it, which
\* is not the one the force on the Planet would have given it
C16_Witness ==
  /\ last.op = "step" /\ ~last.thrown /\ completed = 1
  /\ Len(heap.arrs[sim.bodies]) = 3
  /\ BodyVal(heap, heap.arrs[sim.bodies][1]).name = "Planet"
  /\ BodyVal(heap, heap.arrs[sim.bodies][2]).name = "Twin"
  /\ BodyVal(heap, heap.arrs[sim.bodies][1]).velocity =
       VelocityAfter(PlanetTwinSun[1],
                     calculateTotalGravitationalForce(
                       PlanetTwinSun[2], PlanetTwinSun, sim.G).value, sim.dt)
  /\ BodyVal(heap, heap.arrs[sim.bodies][1]).velocity #
       VelocityAfter(PlanetTwinSun[1],
                     calculateTotalGravitationalForce(
                       PlanetTwinSun[1], PlanetTwinSun, sim.G).value, sim.dt)

\* the names of the bodies of the driver's collection, in collection order
Names(h, s) ==
  [k \in 1..Len(h.arrs[s.bodies]) |-> h.objs[h.arrs[s.bodies][k]].name]

\* the heap in which the driver's collection has the order p, a permutation of
\* its indices
Reordered(h, s, p) ==
  [h EXCEPT !.arrs[s.bodies] = [k \in 1..Len(@) |-> @[p[k]]]]

\* the bodies of the driver's collection, whatever their order
BodySet(h, s) ==
  {BodyVal(h, h.arrs[s.bodies][k]) : k \in 1..Len(h.arrs[s.bodies])}

DistinctIds(h, s) ==
  \A i, j \in 1..Len(h.arrs[s.bodies]) :
    i # j => h.objs[h.arrs[s.bodies][i]].id # h.objs[h.arrs[s.bodies][j]].id

\* the names of the bodies getState() lists, in the order of the list
StateNames(r) ==
  [k \in 1..Len(r.heap.arrs[r.state.bodies]) |->
     r.heap.objs[r.heap.arrs[r.state.bodies][k]].name]

\* C19: in exact arithmetic, for a collection of bodies with pairwise distinct
\* ids, step() leaves every body with the position and velocity it would
\* have after step() on any other ordering of the collection, and getState()
\* lists the bodies in collection order.
C19_OrderIsIrrelevant ==
  [][last'.op = "step" /\ precision = 0 /\ DistinctIds(heap, sim) =>
       /\ \A p \in Permutations(1..Len(heap.arrs[sim.bodies])) :
            \A r \in {step(Reordered(heap, sim, p), sim)} :
              BodySet(r.heap, r.sim) = BodySet(heap', sim')
       /\ \A r \in {getState(heap', sim')} :
            StateNames(r) = Names(heap', sim')]_vars

\* the same of the step() calls that return
C19_OrderIsIrrelevantWhenStepReturns ==
  [][last'.op = "step" /\ ~last'.thrown /\ precision = 0 /\ DistinctIds(heap, sim) =>
       /\ \A p \in Permutations(1..Len(heap.arrs[sim.bodies])) :
            \A r \in {step(Reordered(heap, sim, p), sim)} :
              ~r.thrown /\ BodySet(r.heap, r.sim) = BodySet(heap', sim')
       /\ \A r \in {getState(heap', sim')} :
            StateNames(r) = Names(heap', sim')]_vars

\* a step() has returned on a collection of two or more bodies with distinct
\* ids that attract each other
C19_ReturnsWitness ==
  /\ last.op = "step" /\ ~last.thrown /\ precision = 0
  /\ Len(heap.arrs[sim.bodies]) >= 2
  /\ DistinctIds(heap, sim)
  /\ \E k \in 1..Len(heap.arrs[sim.bodies]) :
       BodyVal(heap, heap.arrs[sim.bodies][k]).velocity \notin
         {MakeBody(sim.dim, t).velocity : t \in Templates}

\* the bodies of the caller that constructs the driver with the Sun and the
\* Planet and adds the Probe, which is where the Planet is
SunPlanetProbe == <<MakeBody(2, "sun"), MakeBody(2, "planet"), MakeBody(2, "probe")>>

\* C26: step() throws only because of a zero mass: it returns when every
\* body of the collection has a nonzero mass, also when bodies are at one
\* position, and when it throws it is with div's error at a body of mass 0.
C26_StepFailsOnlyOnZeroMass ==
  [][last'.op = "step" =>
       last'.thrown = (\E k \in 1..Len(heap.arrs[sim.bodies]) :
                         heap.objs[heap.arrs[sim.bodies][k]].mass = Zero)]_vars

\* the first step() of the driver holding the Sun, the Planet and the Probe
\* has returned: the Planet, which was where the Probe was, has the velocity
\* the force of the Sun alone gives it
C26_Witness ==
  /\ last.op = "step" /\ ~last.thrown /\ completed = 1
  /\ SunPlanetProbe[2].position = SunPlanetProbe[3].position
  /\ Names(heap, sim) = <<"Sun", "Planet", "Probe">>
  /\ BodyVal(heap, heap.arrs[sim.bodies][2]).velocity =
       VelocityAfter(SunPlanetProbe[2],
                     calculateGravitationalForceBetweenBodies(
                       SunPlanetProbe[2], SunPlanetProbe[1], sim.G).value,
                     sim.dt)

\* the sum of mass * velocity over the bodies bs, from the k-th on
RECURSIVE MomentumFrom(_, _, _)
MomentumFrom(bs, k, dim) ==
  IF k > Len(bs) THEN VZero(dim)
  ELSE VAdd(VMul(bs[k].velocity, bs[k].mass), MomentumFrom(bs, k + 1, dim))

NonzeroMasses(h, s) ==
  \A k \in 1..Len(h.arrs[s.bodies]) : h.objs[h.arrs[s.bodies][k]].mass # Zero

\* C27: in exact arithmetic, a step() on bodies with pairwise distinct ids and
\* nonzero masses leaves the sum of mass * velocity over the bodies as it was.
C27_MomentumIsConserved ==
  [][/\ last'.op = "step" /\ precision = 0
     /\ DistinctIds(heap, sim) /\ NonzeroMasses(heap, sim)
     => /\ ~last'.thrown
        /\ MomentumFrom(BodiesVal(heap', sim'.bodies), 1, sim.dim) =
             MomentumFrom(BodiesVal(heap, sim.bodies), 1, sim.dim)]_vars

\* a step() has returned on the Sun and the Planet, which attract each other:
\* both velocities have changed and the momentum is the initial one
C27_Witness ==
  /\ last.op = "step" /\ ~last.thrown /\ precision = 0
  /\ Names(heap, sim) = <<"Sun", "Planet">>
  /\ \A k \in 1..2 :
       BodyVal(heap, heap.arrs[sim.bodies][k]).velocity #
         MakeBody(sim.dim, <<"sun", "planet">>[k]).velocity
  /\ MomentumFrom(BodiesVal(heap, sim.bodies), 1, sim.dim) =
       MomentumFrom(<<MakeBody(sim.dim, "sun"), MakeBody(sim.dim, "planet")>>, 1, sim.dim)

\* the animation loop is running: the runner has a frame requested
LoopRuns(rn) == rn.animationId # Null /\ rn.animationId \in rn.pending

\* C24: a toggle() call (that returns) made while the loop is running stops
\* it, and one made while the loop is stopped starts it, in every state
\* reached through start(), stop(), toggle(), frames and reset().
C24_ToggleSwitches ==
  [][last'.op = "toggle" /\ ~last'.thrown =>
       LoopRuns(runner') = ~LoopRuns(runner)]_vars

\* the same of the toggle() calls made while isRunning and animationId both
\* tell whether the loop is running
C24_ToggleSwitchesWhenFlagIsRight ==
  [][/\ last'.op = "toggle" /\ ~last'.thrown
     /\ sim.isRunning = LoopRuns(runner)
     /\ (runner.animationId # Null) = LoopRuns(runner)
     => LoopRuns(runner') = ~LoopRuns(runner)]_vars

----------------------------------------------------------------------------
(* The caller that keeps the array it constructed the driver with *)

OwnCallers ==
  {[Caller(0, 2, <<"sun">>, Num(4), Num(1), {"planet", "probe"}, 0)
      EXCEPT !.keeps = TRUE],
   [Caller(0, 3, <<>>, Num(4), Num(1), {"sun", "planet"}, 0)
      EXCEPT !.keeps = TRUE]}

InitOwn == InitOf(OwnCallers)

\* the arrays the program holds: the driver's, the caller's, the other
\* drivers'
OwnRoots(s, ps, os) ==
  Dedup(<<s.bodies>> \o ps \o [i \in 1..Len(os) |-> os[i].bodies], <<>>)

\* the state after an operation of the caller that leaves the heap h, the
\* caller's arrays ps and the other drivers os
CallerOp(name, h, ps, os) ==
  \E roots \in {OwnRoots(sim, ps, os)} :
    /\ heap' = Collect(h, roots)
    /\ sim' = [sim EXCEPT !.bodies = IndexOf(roots, @)]
    /\ passed' = [i \in 1..Len(ps) |-> IndexOf(roots, ps[i])]
    /\ others' = [i \in 1..Len(os) |-> [os[i] EXCEPT !.bodies = IndexOf(roots, @)]]
    /\ last' = Op(name)
    /\ UNCHANGED <<precision, runner, snap, stepsLeft, completed>>

\* bodies.push(body) on the array the caller holds
CallerPush(t) ==
  /\ passed # <<>>
  /\ t \in spare
  /\ spare' = spare \ {t}
  /\ \E b \in {StoreBody(heap, MakeBody(sim.dim, t))} :
       CallerOp("push", [b.heap EXCEPT !.arrs[passed[1]] = Append(@, b.addr)],
                passed, others)

\* bodies.pop() on the array the caller holds
CallerPop ==
  /\ passed # <<>>
  /\ heap.arrs[passed[1]] # <<>>
  /\ CallerOp("pop", [heap EXCEPT !.arrs[passed[1]] = SubSeq(@, 1, Len(@) - 1)],
              passed, others)
  /\ UNCHANGED spare

\* new PhysicsSimulation(bodies, G, dt) with the array the caller holds
NewOther ==
  /\ passed # <<>>
  /\ others = <<>>
  /\ CallerOp("new", heap, passed,
              <<NewSimulation(sim.dim, passed[1], sim.G, sim.dt)>>)
  /\ UNCHANGED spare

NextOwn ==
  \/ \E t \in Templates : AddBody(t)
  \/ \E id \in Ids : RemoveBody(id)
  \/ \E t \in Templates : CallerPush(t)
  \/ CallerPop
  \/ NewOther

SpecOwn == InitOwn /\ [][NextOwn]_vars

\* C18: the driver's collection changes through the driver's addBody and
\* removeBody only, not when the caller adds elements to or removes elements
\* from the array it passed to the constructor, and no two drivers have one
\* array as their collection.
C18_DriverOwnsCollection ==
  /\ [][last'.op \notin {"addBody", "removeBody"} =>
          Names(heap', sim') = Names(heap, sim)]_vars
  /\ [](\A i \in 1..Len(others) : others[i].bodies # sim.bodies)

----------------------------------------------------------------------------
(* The runner constructed with an onUpdate callback *)

RunnerCallers ==
  {[Caller(0, 2, <<>>, Num(4), Num(2), {}, MaxTicks) EXCEPT !.onUpdate = TRUE],
   [Caller(0, 2, <<"sun", "planet">>, Num(4), Num(1), {}, MaxSteps + 1)
      EXCEPT !.onUpdate = TRUE]}

InitRunner == InitOf(RunnerCallers)

NextRunner ==
  \/ Start
  \/ Stop
  \/ Toggle
  \/ Frame
  \/ Reset

SpecRunner == InitRunner /\ [][NextRunner]_vars

\* the last runner method called was stop(): by the caller, or by the
\* callback as the last thing it did
StopWasLast ==
  \/ last.op = "stop"
  \/ ~last.thrown /\ last.ran # <<>> /\ last.ran[Len(last.ran)] = "stop"

\* C14: after a call of stop(), made between frames or from inside the
\* onUpdate callback, no frame request is pending (so the runner makes no
\* step() until start() is called).
C14_StopCancels == StopWasLast => runner.pending = {}

\* C15: at most one frame request is pending at any time.
C15_OneFramePending == Cardinality(runner.pending) <= 1

\* C25: between calls, isRunning is true exactly when animationId is not
\* null.
C25_FlagTellsWhetherScheduled == sim.isRunning = (runner.animationId # Null)

\* the same of the transitions made by start(), stop(), toggle() and frames
\* that return, when no callback calls the runner
C25_FlagSetWithHandle ==
  [][/\ last'.op \in {"start", "stop", "toggle", "frame"} /\ ~last'.thrown
     /\ last'.ran = <<>>
     /\ sim.isRunning = (runner.animationId # Null)
     => sim'.isRunning = (runner'.animationId # Null)]_vars

----------------------------------------------------------------------------
(* The caller writes into the snapshot it holds *)

\* snapshot.bodies[i][f].x = Written (.y, .z for c = 2, 3)
SnapSetCoord(i, f, c) ==
  /\ snap.taken /\ ~snap.written
  /\ snap' = [snap EXCEPT !.written = TRUE]
  /\ i \in 1..Len(heap.arrs[snap.bodies])
  /\ f \in VecFields(heap.objs[heap.arrs[snap.bodies][i]])
  /\ heap' = [heap EXCEPT !.vecs[heap.objs[heap.arrs[snap.bodies][i]][f]][c] = Written]
  /\ last' = Op("write")
  /\ UNCHANGED <<passed, others, precision, sim, runner, spare, stepsLeft, completed>>

\* snapshot.bodies[i].mass = Written
SnapSetMass(i) ==
  /\ snap.taken /\ ~snap.written
  /\ snap' = [snap EXCEPT !.written = TRUE]
  /\ i \in 1..Len(heap.arrs[snap.bodies])
  /\ heap' = [heap EXCEPT !.objs[heap.arrs[snap.bodies][i]].mass = Written]
  /\ last' = Op("write")
  /\ UNCHANGED <<passed, others, precision, sim, runner, spare, stepsLeft, completed>>

\* snapshot.bodies.pop()
SnapPop ==
  /\ snap.taken /\ ~snap.written
  /\ snap' = [snap EXCEPT !.written = TRUE]
  /\ heap.arrs[snap.bodies] # <<>>
  /\ heap' = Collect([heap EXCEPT !.arrs[snap.bodies] =
                                    SubSeq(@, 1, Len(@) - 1)], Roots(sim, snap))
  /\ last' = Op("write")
  /\ UNCHANGED <<passed, others, precision, sim, runner, spare, stepsLeft, completed>>

NextSnap ==
  \/ GetState
  \/ \E i \in 1..2, f \in {"position", "velocity", "angularMomentum"} :
       SnapSetCoord(i, f, 1)
  \/ \E i \in 1..2 : SnapSetMass(i)
  \/ SnapPop
  \/ \E t \in Templates : AddBody(t)
  \/ \E id \in Ids : RemoveBody(id)
  \/ Step

SpecSnap == InitSnap /\ [][NextSnap]_vars

\* the body records and the vectors reachable from the array at address a
RecordsOf(h, a) == Range(h.arrs[a])
VectorsOf(h, a) ==
  UNION {{h.objs[o][f] : f \in VecFields(h.objs[o])} : o \in RecordsOf(h, a)}

\* what the driver shows after one more step()
ViewAfterStep(h, s) ==
  Let(step(h, s), LAMBDA r : [view |-> SimView(r.heap, r.sim), thrown |-> r.thrown])

\* C3: a snapshot returned by getState() shares no array, body record or
\* vector with the driver; a write into the snapshot changes neither what the
\* driver shows nor what it shows after a later step(); step(), addBody and
\* removeBody do not change a snapshot returned earlier.
C3_SnapshotIsIndependent ==
  /\ [](snap.taken =>
          /\ snap.bodies # sim.bodies
          /\ RecordsOf(heap, snap.bodies) \cap RecordsOf(heap, sim.bodies) = {}
          /\ VectorsOf(heap, snap.bodies) \cap VectorsOf(heap, sim.bodies) = {})
  /\ [][/\ last'.op = "write" =>
             /\ SimView(heap', sim') = SimView(heap, sim)
             /\ Steppable(heap, sim) =>
                  ViewAfterStep(heap', sim') = ViewAfterStep(heap, sim)
        /\ snap.taken /\ last'.op \in {"step", "addBody", "removeBody"} =>
             SnapView(heap', snap') = SnapView(heap, snap)]_vars

\* the caller has written into a snapshot of a 3D driver, and a step() made
\* after the write has moved the driver's bodies away from the snapshot's
C3_Witness ==
  /\ snap.taken /\ snap.written
  /\ sim.dim = 3
  /\ last.op = "step" /\ ~last.thrown
  /\ Len(heap.arrs[snap.bodies]) = Len(heap.arrs[sim.bodies])
  /\ \E i \in 1..Len(heap.arrs[snap.bodies]) :
       /\ "angularMomentum" \in DOMAIN heap.objs[heap.arrs[snap.bodies][i]]
       /\ BodyVal(heap, heap.arrs[snap.bodies][i]).velocity #
            BodyVal(heap, heap.arrs[sim.bodies][i]).velocity
  /\ \E i \in 1..Len(heap.arrs[snap.bodies]) :
       Written \in Range(BodyVal(heap, heap.arrs[snap.bodies][i]).position)

----------------------------------------------------------------------------
(* The functions of the force model and the integrator, called directly.
   last is the call: the function, its arguments and what it returned. *)

Dims == {2, 3}
Masses == {Num(0), Num(1), Num(3)}
Distances == {Num(0), Num(1), Num(2), Q(1, 2)}
Gs == {Num(4), Num(3), Q(1, 2)}
Dts == {Num(0), Num(1), Q(1, 2)}

Positions(dim) ==
  IF dim = 2 THEN {V2(0, 0), V2(3, 4), V2(0, -4), V2(3, 0)}
  ELSE {V3(0, 0, 0), V3(3, 0, 4), V3(0, 0, -4), V3(2, 1, 2)}

Forces(dim) ==
  IF dim = 2 THEN {V2(0, 0), V2(3, -6)} ELSE {V3(0, 0, 0), V3(3, -6, 9)}

Bodies(dim) == {MakeBody(dim, t) : t \in Templates}

\* the arrays of at most three of the bodies, each at most once; those of
\* three begin with the planet
Collections(dim) ==
  {c \in UNION {[1..n -> Bodies(dim)] : n \in 0..3} :
     /\ \A i, j \in 1..Len(c) : i # j => c[i] # c[j]
     /\ Len(c) = 3 => c[1] = MakeBody(dim, "planet")}

Radii == {Num(1), Num(2), Num(3), Q(3, 2)}

\* the body the caller creates at pos with radius r
Asteroid(dim, pos, r) ==
  IF dim = 2
  THEN createCelestialBody([id |-> "asteroid", name |-> "Asteroid", mass |-> Num(1),
                            position |-> pos, radius |-> r])
  ELSE createCelestialBody3D([id |-> "asteroid", name |-> "Asteroid", mass |-> Num(1),
                              position |-> pos, radius |-> r])

\* in exact arithmetic: the distance between the positions is rational
Rational(pos1, pos2) == precision = 0 => HasSqrt(SumSq(VSub(pos2, pos1)))

InitPure == InitOf({Caller(p, 2, <<>>, Num(4), Num(1), {}, 0) : p \in {0, FloatBits}})

\* each behaviour is one call, or one sequence of step() calls on new drivers
Call(c) ==
  /\ last' = c
  /\ UNCHANGED <<passed, others, precision, heap, sim, runner, snap, spare, stepsLeft, completed>>

CallForce ==
  /\ last.op = "new"
  /\ \E m1 \in Masses, m2 \in Masses, distance \in Distances, G \in Gs :
       Call([op |-> "calculateGravitationalForce", m1 |-> m1, m2 |-> m2,
             distance |-> distance, G |-> G,
             result |-> calculateGravitationalForce(m1, m2, distance, G)])

CallForceVector ==
  /\ last.op = "new"
  /\ \E dim \in Dims :
       \E m1 \in Masses, m2 \in Masses, G \in Gs,
          pos1 \in Positions(dim), pos2 \in Positions(dim) :
         /\ Rational(pos1, pos2)
         /\ Call([op |-> "calculateGravitationalForceVector", m1 |-> m1,
                  pos1 |-> pos1, m2 |-> m2, pos2 |-> pos2, G |-> G,
                  result |-> calculateGravitationalForceVector(m1, pos1, m2, pos2, G)])

CallForceBetweenBodies ==
  /\ last.op = "new"
  /\ \E dim \in Dims :
       \E body1 \in Bodies(dim), body2 \in Bodies(dim), G \in Gs :
         /\ Rational(body1.position, body2.position)
         /\ Call([op |-> "calculateGravitationalForceBetweenBodies",
                  body1 |-> body1, body2 |-> body2, G |-> G,
                  result |-> calculateGravitationalForceBetweenBodies(body1, body2, G)])

CallTotalForce ==
  /\ last.op = "new"
  /\ \E dim \in Dims :
       \E targetBody \in Bodies(dim), otherBodies \in Collections(dim), G \in Gs :
         /\ \A k \in 1..Len(otherBodies) :
              otherBodies[k].id # targetBody.id =>
                Rational(targetBody.position, otherBodies[k].position)
         /\ Call([op |-> "calculateTotalGravitationalForce",
                  targetBody |-> targetBody, otherBodies |-> otherBodies, G |-> G,
                  result |-> calculateTotalGravitationalForce(targetBody, otherBodies, G)])

\* updateBodyEuler on a newly created body: the call with the body before
\* and after it
CallUpdateBodyEuler ==
  /\ last.op = "new"
  /\ \E dim \in Dims :
       \E body \in Bodies(dim), force \in Forces(dim), dt \in Dts :
         \E b \in {StoreBody(EmptyHeap, body)} :
           \E r \in {updateBodyEuler(b.heap, b.addr, force, dt)} :
             Call([op |-> "updateBodyEuler", body |-> body, force |-> force,
                   dt |-> dt, thrown |-> r.thrown, error |-> r.error,
                   after |-> BodyVal(r.heap, b.addr)])

\* getTotalEnergy() on a newly constructed 3D driver
CallGetTotalEnergy ==
  /\ last.op = "new"
  /\ \E bodies \in Collections(3), G \in Gs :
       /\ \A i \in 1..Len(bodies) :
            /\ precision = 0 => HasSqrt(SumSq(bodies[i].velocity))
            /\ \A j \in 1..Len(bodies) :
                 Rational(bodies[i].position, bodies[j].position)
       /\ \E bs \in {StoreBodies(NewArray(EmptyHeap, <<>>).heap, bodies, <<>>)} :
            \E h \in {[bs.heap EXCEPT !.arrs[SimAddr] = bs.elems]} :
              Call([op |-> "getTotalEnergy", bodies |-> bodies, G |-> G,
                    result |-> getTotalEnergy(h, NewSimulation(3, SimAddr, G, Num(1)))])

\* the value undefined in the field f of a parameter record (written as a
\* value of the type of the field: values of one type only are compared)
Undefined(f) == IF f = "color" THEN "undefined" ELSE NoValue

OptionalFields(dim) ==
  IF dim = 2 THEN {"position", "velocity", "radius", "color"}
  ELSE {"position", "velocity", "radius", "color", "inclination", "angularMomentum"}

\* a value a caller supplies in field f
Supplied(dim, f) ==
  CASE f = "position" -> IF dim = 2 THEN V2(3, 4) ELSE V3(3, 0, 4)
    [] f = "velocity" -> IF dim = 2 THEN V2(0, 1) ELSE V3(0, 1, 0)
    [] f = "radius" -> Num(2)
    [] f = "color" -> "#C0C0C0"
    [] f = "inclination" -> Num(1)
    [] f = "angularMomentum" -> V3(0, 0, 1)
    [] f = "id" -> "a"
    [] f = "name" -> "Sun"
    [] f = "mass" -> Num(2)

\* the parameter records: id, name and mass, and each optional field either
\* omitted, or supplied, or present with the value undefined
FactoryParams(dim) ==
  {[f \in {"id", "name", "mass"} \cup {g \in OptionalFields(dim) : how[g] # "omitted"} |->
      IF f \in OptionalFields(dim) /\ how[f] = "undefined" THEN Undefined(f)
      ELSE Supplied(dim, f)] :
   how \in [OptionalFields(dim) -> {"omitted", "supplied", "undefined"}]}

CallCreateCelestialBody ==
  /\ last.op = "new"
  /\ \E dim \in Dims : \E params \in FactoryParams(dim) :
       Call([op |-> "createCelestialBody", dim |-> dim, params |-> params,
             result |-> IF dim = 2 THEN createCelestialBody(params)
                        ELSE createCelestialBody3D(params)])

\* step() on a newly constructed driver; of a 3D driver
\* getTotalAngularMomentum() is called before and after
CallStep ==
  /\ last.op = "new"
  /\ \E dim \in Dims : \E bodies \in Collections(dim), G \in Gs, dt \in Dts :
       /\ \A i, j \in 1..Len(bodies) : Rational(bodies[i].position, bodies[j].position)
       /\ \E bs \in {StoreBodies(NewArray(EmptyHeap, <<>>).heap, bodies, <<>>)} :
            \E h \in {[bs.heap EXCEPT !.arrs[SimAddr] = bs.elems]} :
              \E s \in {NewSimulation(dim, SimAddr, G, dt)} :
                \E r \in {step(h, s)} :
                  Call([op |-> "step", dim |-> dim, bodies |-> bodies, G |-> G,
                        dt |-> dt, thrown |-> r.thrown,
                        after |-> BodiesVal(r.heap, r.sim.bodies),
                        time |-> r.sim.time,
                        angularBefore |-> IF dim = 3 THEN getTotalAngularMomentum(h, s)
                                          ELSE NoValue,
                        angularAfter |-> IF dim = 3
                                         THEN getTotalAngularMomentum(r.heap, r.sim)
                                         ELSE NoValue])

\* the 3D bodies that lie and move in the plane z = 0
PlanarBodies ==
  {b \in {MakeBody(3, t) : t \in Templates \cup {"giant"}} :
     b.position[3] = Zero /\ b.velocity[3] = Zero}

\* the arrays of at most three of them, each at most once
PlanarCollections ==
  {c \in UNION {[1..n -> PlanarBodies] : n \in 0..3} :
     \A i, j \in 1..Len(c) : i # j => c[i] # c[j]}

\* the value of the vector object a method call r has returned
Returned2D(r) == r.heap.vecs[r.addr]

\* the 2D body a caller creates from the 3D body at address o:
\* createCelestialBody({id, name, mass, radius, color,
\*   position: b.position.toVector2D(), velocity: b.velocity.toVector2D()})
Projection(h, o) ==
  createCelestialBody(
    [id |-> h.objs[o].id, name |-> h.objs[o].name, mass |-> h.objs[o].mass,
     radius |-> h.objs[o].radius, color |-> h.objs[o].color,
     position |-> Returned2D(toVector2D(h, h.objs[o].position)),
     velocity |-> Returned2D(toVector2D(h, h.objs[o].velocity))])

\* a PhysicsSimulation3D of bodies in the plane z = 0 and the
\* PhysicsSimulation of their projections, with the same G and dt: step() is
\* called n times on each
CallStepInPlane ==
  /\ last.op = "new"
  /\ \E bodies \in PlanarCollections, G \in Gs, dt \in Dts, n \in 0..MaxSteps :
       \E bs \in {StoreBodies(NewArray(EmptyHeap, <<>>).heap, bodies, <<>>)} :
         \E h3 \in {[bs.heap EXCEPT !.arrs[SimAddr] = bs.elems]} :
           \E ps \in {StoreBodies(NewArray(EmptyHeap, <<>>).heap,
                                  [i \in 1..Len(bodies) |-> Projection(h3, bs.elems[i])],
                                  <<>>)} :
             \E h2 \in {[ps.heap EXCEPT !.arrs[SimAddr] = ps.elems]} :
               \E s3 \in {NewSimulation(3, SimAddr, G, dt)},
                  s2 \in {NewSimulation(2, SimAddr, G, dt)} :
                 /\ SteppableFor(h3, s3, n)
                 /\ \E r3 \in {StepTimes(h3, s3, n)}, r2 \in {StepTimes(h2, s2, n)} :
                      Call([op |-> "stepInPlane", bodies |-> bodies, G |-> G,
                            dt |-> dt, n |-> n,
                            thrown3D |-> r3.thrown, thrown2D |-> r2.thrown,
                            after3D |-> BodiesVal(r3.heap, r3.sim.bodies),
                            after2D |-> BodiesVal(r2.heap, r2.sim.bodies)])

\* the bodies after each of the statements step(); ...; step() (n of them),
\* appended to acc: a call that throws ends the sequence
RECURSIVE StepStates(_, _, _, _)
StepStates(h, s, n, acc) ==
  IF n <= 0 THEN [states |-> acc, thrown |-> FALSE]
  ELSE Let(step(h, s), LAMBDA r :
         IF r.thrown THEN [states |-> acc, thrown |-> TRUE]
         ELSE StepStates(r.heap, r.sim, n - 1,
                         Append(acc, BodiesVal(r.heap, r.sim.bodies))))

\* the time steps of the callers that step a driver several times
StepDts == Dts \cup {Q(3, 8)}

\* step() called n times on a newly constructed driver of one or two bodies:
\* states are the bodies at construction and after each call that returned
CallSteps ==
  /\ last.op = "new"
  /\ \E dim \in Dims :
       \E bodies \in {c \in Collections(dim) : Len(c) \in {1, 2}},
          G \in Gs, dt \in StepDts, n \in 1..MaxSteps :
         \E bs \in {StoreBodies(NewArray(EmptyHeap, <<>>).heap, bodies, <<>>)} :
           \E h \in {[bs.heap EXCEPT !.arrs[SimAddr] = bs.elems]} :
             \E s \in {NewSimulation(dim, SimAddr, G, dt)} :
               /\ SteppableFor(h, s, n)
               /\ \E r \in {StepStates(h, s, n, <<bodies>>)} :
                    Call([op |-> "steps", dim |-> dim, bodies |-> bodies, G |-> G,
                          dt |-> dt, n |-> n, states |-> r.states,
                          thrown |-> r.thrown])

CallAreColliding ==
  /\ last.op = "new"
  /\ \E dim \in Dims :
       \E pos1 \in Positions(dim), pos2 \in Positions(dim), r1 \in Radii, r2 \in Radii :
         /\ Rational(pos1, pos2)
         /\ \E body1 \in {Asteroid(dim, pos1, r1)}, body2 \in {Asteroid(dim, pos2, r2)} :
              Call([op |-> "areColliding", body1 |-> body1, body2 |-> body2,
                    result |-> IF dim = 2 THEN areColliding(body1, body2)
                               ELSE areColliding3D(body1, body2)])

NextPure ==
  \/ CallForce
  \/ CallForceVector
  \/ CallForceBetweenBodies
  \/ CallTotalForce
  \/ CallUpdateBodyEuler
  \/ CallGetTotalEnergy
  \/ CallAreColliding
  \/ CallCreateCelestialBody
  \/ CallStep
  \/ CallStepInPlane
  \/ CallSteps

SpecPure == InitPure /\ [][NextPure]_vars

\* the bodies of bs whose id is not the given one, in their order
RECURSIVE OfOtherId(_, _)
OfOtherId(bs, id) ==
  IF bs = <<>> THEN <<>>
  ELSE IF bs[Len(bs)].id = id THEN OfOtherId(SubSeq(bs, 1, Len(bs) - 1), id)
  ELSE Append(OfOtherId(SubSeq(bs, 1, Len(bs) - 1), id), bs[Len(bs)])

\* the sum, in the order of bs, of the pairwise forces on target due to each
\* body of bs
RECURSIVE SumOfForces(_, _, _)
SumOfForces(target, bs, G) ==
  IF bs = <<>> THEN VZero(Len(target.position))
  ELSE VAdd(SumOfForces(target, SubSeq(bs, 1, Len(bs) - 1), G),
            calculateGravitationalForceBetweenBodies(target, bs[Len(bs)], G).value)

----------------------------------------------------------------------------
\* C8: calculateTotalGravitationalForce(target, bodies, G) returns the sum of
\* the pairwise forces on target due to the bodies whose id is not target's;
\* for a collection of the target alone, or of bodies that all have the
\* target's id, that is the zero vector.
C8_TotalForceExcludesById ==
  last.op = "calculateTotalGravitationalForce" =>
    /\ last.result =
         Ret(SumOfForces(last.targetBody,
                         OfOtherId(last.otherBodies, last.targetBody.id), last.G))
    /\ (\A k \in 1..Len(last.otherBodies) :
          last.otherBodies[k].id = last.targetBody.id) =>
         last.result = Ret(VZero(Len(last.targetBody.position)))

\* the force on the Planet in a collection of the Planet, the Twin that has
\* the Planet's id, and the Sun: it is the force due to the Sun
C8_Witness ==
  /\ last.op = "calculateTotalGravitationalForce"
  /\ last.targetBody.name = "Planet"
  /\ {last.otherBodies[k].name : k \in 1..Len(last.otherBodies)} =
       {"Planet", "Twin", "Sun"}
  /\ last.result.value # VZero(Len(last.targetBody.position))
  /\ \E k \in 1..Len(last.otherBodies) :
       /\ last.otherBodies[k].name = "Sun"
       /\ last.result =
            calculateGravitationalForceBetweenBodies(
              last.targetBody, last.otherBodies[k], last.G)

----------------------------------------------------------------------------
\* C2: updateBodyEuler / updateBodyEuler3D on a body of nonzero mass returns
\* normally with velocity = old velocity + (force / mass) * dt and
\* position = old position + NEW velocity * dt; mass, radius and id are
\* those of the body before the call.
C2_SemiImplicitEuler ==
  last.op = "updateBodyEuler" /\ ~QIsZero(last.body.mass) =>
    /\ ~last.thrown
    /\ last.after.velocity =
         VAdd(last.body.velocity,
              VMul(VDiv(last.force, last.body.mass).value, last.dt))
    /\ last.after.position =
         VAdd(last.body.position, VMul(last.after.velocity, last.dt))
    /\ last.after.mass = last.body.mass
    /\ last.after.radius = last.body.radius
    /\ last.after.id = last.body.id

\* a call in which the two Euler orders differ: force and dt are nonzero and
\* the new position is not old position + old velocity * dt
C2_Witness ==
  /\ last.op = "updateBodyEuler"
  /\ ~QIsZero(last.body.mass)
  /\ last.force # VZero(Len(last.force))
  /\ ~QIsZero(last.dt)
  /\ ~last.thrown
  /\ last.after.velocity # last.body.velocity
  /\ last.after.position #
       VAdd(last.body.position, VMul(last.body.velocity, last.dt))
----------------------------------------------------------------------------
\* the vector -v
VNeg(v) == [i \in DOMAIN v |-> QNeg(v[i])]

\* q is positive, zero or negative
Sign(q) == IF q[1] > 0 THEN 1 ELSE IF q[1] < 0 THEN -1 ELSE 0

\* the force f on a body at pos1 does not point away from pos2: it is zero,
\* or each of its components has the sign of that component of pos2 - pos1
PointsToward(f, pos1, pos2) ==
  \/ f = VZero(Len(f))
  \/ \A i \in DOMAIN f : Sign(f[i]) = Sign(QSub(pos2[i], pos1[i]))

\* C9: for two bodies at distinct positions the force on A due to B returned
\* by calculateGravitationalForceBetweenBodies(A, B, G) is the exact negation
\* of calculateGravitationalForceBetweenBodies(B, A, G), and points from A
\* toward B.
C9_ForceIsExactNegation ==
  last.op = "calculateGravitationalForceBetweenBodies"
    /\ last.body1.position # last.body2.position =>
    /\ ~last.result.thrown
    /\ last.result.value =
         VNeg(calculateGravitationalForceBetweenBodies(
                last.body2, last.body1, last.G).value)
    /\ PointsToward(last.result.value, last.body1.position, last.body2.position)

\* C9 where no operation rounds: the same statement in exact arithmetic
C9_ExactWhereNothingRounds == precision = 0 => C9_ForceIsExactNegation

\* C9 without the negation: the force on A points from A toward B in both
\* number formats
C9_PointsTowardOther ==
  last.op = "calculateGravitationalForceBetweenBodies"
    /\ last.body1.position # last.body2.position =>
    /\ ~last.result.thrown
    /\ PointsToward(last.result.value, last.body1.position, last.body2.position)
----------------------------------------------------------------------------
\* C10: calculateGravitationalForce throws ("Distance cannot be zero") exactly
\* when distance is 0; calculateGravitationalForceVector (2D and 3D) and
\* the functions that call it never throw, and return the zero vector when
\* the two positions coincide.
C10_ZeroDistance ==
  /\ last.op = "calculateGravitationalForce" =>
       /\ last.result.thrown = QIsZero(last.distance)
       /\ last.result.thrown => last.result.error = "Distance cannot be zero"
  /\ last.op = "calculateGravitationalForceVector" =>
       /\ ~last.result.thrown
       /\ last.pos1 = last.pos2 => last.result.value = VZero(Len(last.pos1))
  /\ last.op = "calculateGravitationalForceBetweenBodies" =>
       /\ ~last.result.thrown
       /\ last.body1.position = last.body2.position =>
            last.result.value = VZero(Len(last.body1.position))
  /\ last.op = "calculateTotalGravitationalForce" => ~last.result.thrown

\* the vector function was called for two positive masses at one position
\* that is not the origin, and returned the zero vector
C10_Witness ==
  /\ last.op = "calculateGravitationalForceVector"
  /\ last.pos1 = last.pos2
  /\ last.pos1 # VZero(Len(last.pos1))
  /\ ~QIsZero(last.m1) /\ ~QIsZero(last.m2)
  /\ last.result = Ret(VZero(Len(last.pos1)))
----------------------------------------------------------------------------
\* C11: updateBodyEuler / updateBodyEuler3D on a body of mass 0 throws the
\* "Division by zero" error of the vector div, for every force and dt, and
\* leaves the body as it was.
C11_ZeroMassFails ==
  last.op = "updateBodyEuler" /\ QIsZero(last.body.mass) =>
    /\ last.thrown
    /\ last.error = "Division by zero"
    /\ last.after = last.body

\* the integrator was called with the zero force and a nonzero dt on a body
\* of mass 0 that has a velocity, and threw
C11_Witness ==
  /\ last.op = "updateBodyEuler"
  /\ QIsZero(last.body.mass)
  /\ last.force = VZero(Len(last.force))
  /\ ~QIsZero(last.dt)
  /\ last.body.velocity # VZero(Len(last.force))
  /\ last.thrown
----------------------------------------------------------------------------
\* C13: getTotalEnergy() throws whenever two bodies of the collection are at
\* the same position.
C13_EnergyFailsOnCoincidence ==
  last.op = "getTotalEnergy"
    /\ (\E i, j \in 1..Len(last.bodies) :
          i # j /\ last.bodies[i].position = last.bodies[j].position) =>
    last.result.thrown

\* C20: areColliding / areColliding3D return true exactly when the distance
\* between the positions of the two bodies (distanceTo) is less than or equal
\* to the sum of their radii (+): true when the two are equal, false when the
\* distance is greater; in exact arithmetic that is when the squared distance
\* is at most the squared sum; the call changes no object.
C20_CollidingIffTouchingOrCloser ==
  /\ [](last.op = "areColliding" =>
         /\ last.result \in BOOLEAN
         /\ VDistanceTo(last.body1.position, last.body2.position) =
              Plus(last.body1.radius, last.body2.radius) => last.result
         /\ ~QLeq(VDistanceTo(last.body1.position, last.body2.position),
                  Plus(last.body1.radius, last.body2.radius)) => ~last.result
         /\ ~QLeq(Plus(last.body1.radius, last.body2.radius),
                  VDistanceTo(last.body1.position, last.body2.position)) => last.result
         /\ precision = 0 =>
              (last.result <=>
                 QLeq(SumSq(VSub(last.body2.position, last.body1.position)),
                      QMul(QAdd(last.body1.radius, last.body2.radius),
                           QAdd(last.body1.radius, last.body2.radius)))))
  /\ [][last'.op = "areColliding" => heap' = heap /\ sim' = sim]_vars

\* two bodies that touch (distance 5, radii 2 and 3, in two dimensions) were
\* found colliding
C20_Witness ==
  /\ last.op = "areColliding"
  /\ Len(last.body1.position) = 2
  /\ last.body1.radius = Num(2) /\ last.body2.radius = Num(3)
  /\ last.body1.position # last.body2.position
  /\ VDistanceTo(last.body1.position, last.body2.position) =
       Plus(last.body1.radius, last.body2.radius)
  /\ last.result

\* the defaults of the factories, by field
DefaultOf(dim, f) ==
  CASE f \in {"position", "velocity"} -> VZero(dim)
    [] f = "radius" -> Num(1000)
    [] f = "color" -> "#ffffff"
    [] f = "inclination" -> Zero

DefaultedFields(dim) ==
  IF dim = 2 THEN {"position", "velocity", "radius", "color"}
  ELSE {"position", "velocity", "radius", "color", "inclination"}

\* C23: createCelestialBody / createCelestialBody3D fill every omitted field
\* with its default (position and velocity the zero vector, radius 1000,
\* color "#ffffff", inclination 0 in 3D), keep every field the caller supplied,
\* and return a body whose position, velocity, radius and color are defined.
C23_FactoryFillsDefaults ==
  last.op = "createCelestialBody" =>
    /\ \A f \in DefaultedFields(last.dim) \ DOMAIN last.params :
         f \in DOMAIN last.result /\ last.result[f] = DefaultOf(last.dim, f)
    /\ \A f \in DOMAIN last.params :
         f \in DOMAIN last.result /\ last.result[f] = last.params[f]
    /\ \A f \in {"position", "velocity", "radius", "color"} :
         f \in DOMAIN last.result /\ last.result[f] # Undefined(f)

\* the same of the parameter records none of whose fields is undefined
C23_FactoryFillsDefaultsUnlessUndefined ==
  last.op = "createCelestialBody"
  /\ (\A f \in DOMAIN last.params \cap OptionalFields(last.dim) :
        last.params[f] # Undefined(f)) =>
    /\ \A f \in DefaultedFields(last.dim) \ DOMAIN last.params :
         f \in DOMAIN last.result /\ last.result[f] = DefaultOf(last.dim, f)
    /\ \A f \in DOMAIN last.params :
         f \in DOMAIN last.result /\ last.result[f] = last.params[f]
    /\ \A f \in {"position", "velocity", "radius", "color"} :
         f \in DOMAIN last.result /\ last.result[f] # Undefined(f)

\* the bodies have pairwise distinct ids and nonzero masses
DistinctAndMassive(bs) ==
  \A i \in 1..Len(bs) :
    /\ bs[i].mass # Zero
    /\ \A j \in 1..Len(bs) : i # j => bs[i].id # bs[j].id

\* C28: in exact arithmetic, getTotalAngularMomentum() of a 3D driver whose
\* bodies have pairwise distinct ids and nonzero masses returns the same
\* vector before and after a step(), the sum of position x (mass * velocity).
C28_AngularMomentumIsConserved ==
  last.op = "step" /\ last.dim = 3 /\ precision = 0 /\ DistinctAndMassive(last.bodies) =>
    /\ ~last.thrown
    /\ last.angularAfter = last.angularBefore
    /\ last.angularBefore = AngularLoop(last.bodies, 1, VZero(3))

\* a step() of the Sun and the Twin, whose angular momentum is (-12, 0, 9),
\* with a force and a time step that are not zero
C28_Witness ==
  /\ last.op = "step" /\ last.dim = 3 /\ precision = 0 /\ ~last.thrown
  /\ last.bodies = <<MakeBody(3, "sun"), MakeBody(3, "twin")>>
  /\ last.dt = Num(1)
  /\ last.angularAfter = V3(-12, 0, 9)
  /\ last.after[2].velocity # last.bodies[2].velocity

\* a === b on numbers: NaN equals nothing
SameNumber(a, b) == a = b /\ a # NaN

AllFinite(bs) ==
  \A i \in 1..Len(bs) : \A f \in {"position", "velocity"} :
    \A c \in DOMAIN bs[i][f] : IsFinite(bs[i][f][c])

\* body b3 of the 3D driver has z = 0 and the x, y of body b2 of the 2D driver
InPlaneAs(b3, b2) ==
  \A f \in {"position", "velocity"} :
    /\ SameNumber(b3[f][3], Zero)
    /\ SameNumber(b3[f][1], b2[f][1])
    /\ SameNumber(b3[f][2], b2[f][2])

\* C29 as stated: after n steps of a 3D driver whose bodies have z = 0 and
\* of the 2D driver of their toVector2D projections, every 3D body has z = 0
\* and the x, y position and velocity of its 2D counterpart
C29_PlaneBehavesAs2D ==
  last.op = "stepInPlane" =>
    /\ Len(last.after3D) = Len(last.after2D)
    /\ \A i \in 1..Len(last.after3D) : InPlaneAs(last.after3D[i], last.after2D[i])

\* C29: the same, after every number of steps after which all coordinates
\* of the 3D bodies are finite; the two drivers also fail together
C29_PlaneBehavesAs2DWhileFinite ==
  last.op = "stepInPlane" =>
    /\ last.thrown3D = last.thrown2D
    /\ Len(last.after3D) = Len(last.after2D)
    /\ AllFinite(last.after3D) =>
         \A i \in 1..Len(last.after3D) : InPlaneAs(last.after3D[i], last.after2D[i])

\* two steps in floating point in which the Sun has pulled the Planet off its
\* straight line, all coordinates finite
C29_Witness ==
  /\ last.op = "stepInPlane" /\ last.n = MaxSteps /\ precision > 0
  /\ ~last.thrown3D
  /\ AllFinite(last.after3D)
  /\ \E i \in 1..Len(last.after3D) :
       /\ last.after3D[i].velocity # last.bodies[i].velocity
       /\ last.after3D[i].position[2] # last.bodies[i].position[2]

\* the collection bs holds a single body, or only bodies sharing one
\* position, all of nonzero mass
ForceFree(bs) ==
  \A i \in 1..Len(bs) :
    ~QIsZero(bs[i].mass) /\ bs[i].position = bs[1].position

\* the bodies have been force-free at construction and after each of the
\* first k steps
ForceFreeUntil(states, k) == \A j \in 1..(k + 1) : ForceFree(states[j])

\* C30 as stated: while a driver holds a single body of nonzero mass, or only
\* such bodies sharing one position, every step() returns and leaves every
\* velocity unchanged, and after k steps every position is the initial
\* position + k * dt * velocity (computed exactly, or in the number format)
C30_UniformMotion ==
  last.op = "steps" =>
    \A k \in 0..last.n :
      ForceFreeUntil(last.states, IF k = 0 THEN 0 ELSE k - 1) =>
        /\ Len(last.states) > k
        /\ \A i \in 1..Len(last.bodies) :
             /\ last.states[k + 1][i].velocity = last.bodies[i].velocity
             /\ \A c \in 1..last.dim :
                  \/ last.states[k + 1][i].position[c] =
                       QAdd(last.bodies[i].position[c],
                            QMul(QMul(Num(k), last.dt), last.bodies[i].velocity[c]))
                  \/ last.states[k + 1][i].position[c] =
                       Plus(last.bodies[i].position[c],
                            Times(Times(Num(k), last.dt), last.bodies[i].velocity[c]))

\* C30, amended: ... every step() returns, leaves every velocity unchanged
\* and sets every position to position + velocity * dt in the number format;
\* after k steps every position is the initial position + k * dt * velocity
\* in exact arithmetic
C30_UniformMotionRounded ==
  last.op = "steps" =>
    \A k \in 1..last.n :
      ForceFreeUntil(last.states, k - 1) =>
        /\ Len(last.states) > k
        /\ \A i \in 1..Len(last.bodies) :
             /\ last.states[k + 1][i].velocity = last.states[k][i].velocity
             /\ last.states[k + 1][i].position =
                  VAdd(last.states[k][i].position,
                       VMul(last.states[k][i].velocity, last.dt))
             /\ precision = 0 =>
                  \A c \in 1..last.dim :
                    last.states[k + 1][i].position[c] =
                      QAdd(last.bodies[i].position[c],
                           QMul(QMul(Num(k), last.dt), last.bodies[i].velocity[c]))

\* the Planet alone has made MaxSteps steps in floating point and has moved,
\* and Planet and Probe, at one position, have made a step
C30_Witness ==
  /\ last.op = "steps" /\ precision > 0 /\ ~last.thrown
  /\ \/ /\ last.n = MaxSteps /\ Len(last.bodies) = 1
        /\ last.bodies[1].name = "Planet"
        /\ ForceFreeUntil(last.states, last.n)
        /\ last.states[last.n + 1][1].position # last.states[last.n][1].position
     \/ /\ Len(last.bodies) = 2
        /\ ForceFree(last.bodies)
        /\ last.states[2][1].position # last.bodies[1].position

----------------------------------------------------------------------------
(* Calls of the vector methods on two vector objects the caller holds *)

\* among them a vector whose squared components underflow
Vectors(dim) ==
  IF dim = 2 THEN {V2(0, 0), V2(3, 4), V2(3, 0), <<Q(1, 32), Zero>>}
  ELSE {V3(0, 0, 0), V3(3, 0, 4), V3(2, 1, 2), <<Q(1, 32), Zero, Zero>>}

Scalars == {Zero, Num(2), Num(-1), Q(1, 2)}

Methods(dim) ==
  {"add", "sub", "mul", "div", "normalize", "clone"}
    \cup (IF dim = 3 THEN {"cross", "toVector2D"} ELSE {"fromVector2D"})

\* the caller has created the vectors a and b
InitVec ==
  /\ precision \in {0, FloatBits}
  /\ \E dim \in Dims : \E a \in Vectors(dim), b \in Vectors(dim) :
       /\ heap = NewVector(NewVector(NewArray(EmptyHeap, <<>>).heap, a).heap, b).heap
       /\ sim = NewSimulation(dim, SimAddr, Num(4), Num(1))
  /\ runner = NewRunner(FALSE)
  /\ snap = NoSnap
  /\ spare = {}
  /\ stepsLeft = 0
  /\ completed = 0
  /\ last = Op("new")
  /\ passed = <<>>
  /\ others = <<>>

\* this.method(v) / this.method(scalar) / Vector3D.fromVector2D(this, scalar)
Invoke(h, method, this, v, scalar) ==
  CASE method = "add" -> add(h, this, v)
    [] method = "sub" -> sub(h, this, v)
    [] method = "mul" -> mul(h, this, scalar)
    [] method = "div" -> div(h, this, scalar)
    [] method = "normalize" -> normalize(h, this)
    [] method = "cross" -> cross(h, this, v)
    [] method = "clone" -> clone(h, this)
    [] method = "toVector2D" -> toVector2D(h, this)
    [] method = "fromVector2D" -> fromVector2D(h, this, scalar)

\* one call of a method; in exact arithmetic magnitude() is taken of vectors
\* with a rational magnitude only
CallMethod ==
  /\ last.op = "new"
  /\ \E method \in Methods(sim.dim), this \in DOMAIN heap.vecs, v \in DOMAIN heap.vecs,
        scalar \in Scalars :
       /\ precision = 0 /\ method = "normalize" => HasSqrt(SumSq(heap.vecs[this]))
       /\ \E r \in {Invoke(heap, method, this, v, scalar)} :
            /\ heap' = r.heap
            /\ last' = [op |-> method, this |-> this, v |-> v, scalar |-> scalar,
                        thrown |-> r.thrown, error |-> r.error, addr |-> r.addr]
  /\ UNCHANGED <<passed, others, precision, sim, runner, snap, spare, stepsLeft, completed>>

NextVec == CallMethod

SpecVec == InitVec /\ [][NextVec]_vars

\* C21: normalize() never throws; for the zero vector it returns the zero
\* vector and for every other vector div(v, magnitude(v)); div(v, 0) always
\* throws.
C21_NormalizeNeverRaises ==
  [][/\ last'.op = "normalize" =>
          /\ ~last'.thrown
          /\ heap.vecs[last'.this] = VZero(sim.dim) =>
               heap'.vecs[last'.addr] = VZero(sim.dim)
          /\ heap.vecs[last'.this] # VZero(sim.dim) =>
               \A r \in {VDiv(heap.vecs[last'.this], VMagnitude(heap.vecs[last'.this]))} :
                 ~r.thrown /\ heap'.vecs[last'.addr] = r.value
     /\ last'.op = "div" /\ last'.scalar = Zero => last'.thrown]_vars

\* the same of the vectors whose magnitude() is not 0: normalize() returns
\* the zero vector for the others
C21_NormalizeUnlessMagnitudeIsZero ==
  [][/\ last'.op = "normalize" =>
          /\ ~last'.thrown
          /\ VMagnitude(heap.vecs[last'.this]) = Zero =>
               heap'.vecs[last'.addr] = VZero(sim.dim)
          /\ VMagnitude(heap.vecs[last'.this]) # Zero =>
               \A r \in {VDiv(heap.vecs[last'.this], VMagnitude(heap.vecs[last'.this]))} :
                 ~r.thrown /\ heap'.vecs[last'.addr] = r.value
     /\ last'.op = "div" /\ last'.scalar = Zero => last'.thrown]_vars

\* C22: add, sub, mul, div, normalize, cross, clone, toVector2D and
\* fromVector2D leave the components of every existing vector object, the
\* receiver and the argument among them, as they were, and return a vector
\* object that did not exist before the call; a div that throws changes
\* nothing.
C22_VectorMethodsAreSideEffectFree ==
  [][last'.op \in Methods(sim.dim) =>
       /\ \A a \in DOMAIN heap.vecs :
            a \in DOMAIN heap'.vecs /\ heap'.vecs[a] = heap.vecs[a]
       /\ ~last'.thrown =>
            last'.addr \in DOMAIN heap'.vecs \ DOMAIN heap.vecs
       /\ last'.thrown => heap' = heap]_vars

\* mul(2) on the vector (3, 4) has returned a third object, (6, 8), and the
\* receiver is (3, 4) as before
C22_Witness ==
  /\ last.op = "mul" /\ ~last.thrown
  /\ last.scalar = Num(2)
  /\ heap.vecs[last.this] = V2(3, 4)
  /\ last.addr \notin {last.this, last.v}
  /\ heap.vecs[last.addr] = V2(6, 8)

====
